---- MODULE Spec2Model ----
(***************************************************************************)
(* Quote Normalization Engine                                              *)
(*   backend/app/services/quote_normalization.py  (the engine)             *)
(*   backend/app/api/ai_assist.py                 (the /normalize-quotes   *)
(*                                                 endpoint that feeds it) *)
(*                                                                         *)
(* The engine computes with Python's decimal.Decimal under the default     *)
(* context (28 significant digits, ROUND_HALF_EVEN).  TLC's integers are   *)
(* 32 bits wide, so a Decimal is modelled by its sign, its coefficient as  *)
(* a sequence of base-10000 limbs (most significant first) and its         *)
(* exponent, and the arithmetic below is the arithmetic of the decimal     *)
(* module on that representation.                                          *)
(***************************************************************************)
EXTENDS Integers, Sequences, FiniteSets, TLC

(***************************************************************************)
(* Natural numbers of any size: sequences of limbs 0..9999, most           *)
(* significant first, without leading zero limbs (zero is <<0>>).  The     *)
(* operations are functions, so that their arguments are values.           *)
(***************************************************************************)
Limbs == Seq(Int)

Max(a, b) == IF a > b THEN a ELSE b

Zeros[n \in Int] == [i \in 1..n |-> 0]

Pow10[k \in 0..4] ==
    CASE k = 0 -> 1 [] k = 1 -> 10 [] k = 2 -> 100 [] k = 3 -> 1000 [] k = 4 -> 10000

\* s without its leading zero limbs
Strip[s \in Limbs] ==
    LET nz == {i \in 1..Len(s) : s[i] # 0}
    IN  IF nz = {} THEN <<0>>
        ELSE SubSeq(s, CHOOSE i \in nz : \A j \in nz : i <= j, Len(s))

NatIsZero(a) == a = <<0>>

\* -1, 0 or 1 as a < b, a = b, a > b
NatCmp[a \in Limbs, b \in Limbs] ==
    IF Len(a) < Len(b) THEN -1
    ELSE IF Len(a) > Len(b) THEN 1
    ELSE LET df == {i \in 1..Len(a) : a[i] # b[i]}
         IN  IF df = {} THEN 0
             ELSE LET i == CHOOSE i \in df : \A j \in df : i <= j
                  IN  IF a[i] < b[i] THEN -1 ELSE 1

\* The number whose limbs before carries are s, each in 0..19998.  The carry
\* into a limb is 1 exactly when some lower limb j overflows and every limb
\* between the two is 9999.
Carry[s \in Limbs] ==
    Strip[[i \in 1..(Len(s) + 1) |->
             ((IF i = 1 THEN 0 ELSE s[i - 1])
              + (IF \E j \in i..Len(s) :
                       s[j] >= 10000 /\ \A k \in i..(j - 1) : s[k] = 9999
                 THEN 1 ELSE 0)) % 10000]]

\* The number (not negative) whose limbs before borrows are d, each in
\* -9999..9999.  The borrow from a limb is 1 exactly when some lower limb j
\* is negative and every limb between the two is 0.
Borrow[d \in Limbs] ==
    Strip[[i \in 1..Len(d) |->
             (d[i] + 10000
              - (IF \E j \in (i + 1)..Len(d) :
                       d[j] < 0 /\ \A k \in (i + 1)..(j - 1) : d[k] = 0
                 THEN 1 ELSE 0)) % 10000]]

\* a with leading zero limbs up to n limbs
PadTo[a \in Limbs, n \in Int] == Zeros[n - Len(a)] \o a

LimbDigits(x) == IF x < 10 THEN 1 ELSE IF x < 100 THEN 2 ELSE IF x < 1000 THEN 3 ELSE 4

\* len(str(a))
NatNumDigits(a) == 4 * (Len(a) - 1) + LimbDigits(a[1])

NatIsOdd(a) == a[Len(a)] % 2 = 1

\* The value of a natural small enough for an integer
NatToInt[a \in Limbs] ==
    IF Len(a) = 1 THEN a[1]
    ELSE NatToInt[SubSeq(a, 1, Len(a) - 1)] * 10000 + a[Len(a)]

IntToNat[m \in Int] ==
    IF m < 10000 THEN <<m>> ELSE Append(IntToNat[m \div 10000], m % 10000)

\* Division of the limbs lo..hi of a by an integer 0 < m < 210000, coming in
\* with the remainder r of the limbs above: <<the quotient's limbs, remainder>>
NatDivSmallRange[a \in Limbs, m \in Int, lo \in Int, hi \in Int, r \in Int] ==
    IF lo = hi
    THEN <<<<(r * 10000 + a[lo]) \div m>>, (r * 10000 + a[lo]) % m>>
    ELSE LET left  == NatDivSmallRange[a, m, lo, (lo + hi) \div 2, r]
             right == NatDivSmallRange[a, m, (lo + hi) \div 2 + 1, hi, left[2]]
         IN  <<left[1] \o right[1], right[2]>>

(***************************************************************************)
(* decimal.Decimal: [neg, c, e] stands for (-1)^neg * c * 10^e, and NaN for *)
(* Decimal("NaN"), which every arithmetic operation hands on.  The default *)
(* context: 28 significant digits, ROUND_HALF_EVEN.                        *)
(***************************************************************************)
PREC == 28

NaN == [nan |-> TRUE]

Finite == [neg : BOOLEAN, c : Limbs, e : Int]

Decimals == Finite \cup {NaN}

Dec(m, e) == [neg |-> m < 0, c |-> IntToNat[IF m < 0 THEN -m ELSE m], e |-> e]

DecIsZero(d) == d # NaN /\ NatIsZero(d.c)

\* The number of zeros that end the decimal digits of c > 0
NatTrailingZeros[c \in Limbs] ==
    LET nz   == {i \in 1..Len(c) : c[i] # 0}
        last == CHOOSE i \in nz : \A j \in nz : i >= j
        x    == c[last]
        t    == IF x % 10 # 0 THEN 0 ELSE IF x % 100 # 0 THEN 1 ELSE IF x % 1000 # 0 THEN 2 ELSE 3
    IN  4 * (Len(c) - last) + t

(***************************************************************************)
(* Python values.  A dict is a function from its keys to values; a key the *)
(* dict does not have is not in its DOMAIN.                                *)
(***************************************************************************)
NoneV == [t |-> "None"]

StrV(s) == [t |-> "str", s |-> s]

\* a number x (float, int or Decimal) with Decimal(str(x)) = d; float("nan")
\* is NumV(NaN)
NumV(d) == [t |-> "num", d |-> d]

IntV(n) == [t |-> "int", n |-> n]

BoolV(b) == [t |-> "bool", b |-> b]

\* dict.get(key, default)
Get(dict, key, default) == IF key \in DOMAIN dict THEN dict[key] ELSE default

\* bool(v)
Truthy(v) ==
    CASE v.t = "None" -> FALSE
      [] v.t = "str"  -> v.s # ""
      [] v.t = "num"  -> ~DecIsZero(v.d)
      [] v.t = "int"  -> v.n # 0
      [] v.t = "bool" -> v.b

\* A returned value, and a raised exception with its str()
Ok(v) == [ok |-> TRUE, v |-> v]

Raise(kind, arg) == [ok |-> FALSE, err |-> [kind |-> kind, arg |-> arg]]

\* str.upper() and str.lower() on the strings of the model: the strings not
\* listed hold no letter of the other case
ToUpper == [usd |-> "USD", eur |-> "EUR", fob |-> "FOB", cif |-> "CIF"]

ToLower == [KG |-> "kg", Lbs |-> "lbs", EACH |-> "each"]

Upper(s) == IF s \in DOMAIN ToUpper THEN ToUpper[s] ELSE s

Lower(s) == IF s \in DOMAIN ToLower THEN ToLower[s] ELSE s

\* v.upper(), v.lower(): AttributeError when v is not a str
StrUpper(v) ==
    IF v.t = "str" THEN Ok(Upper(v.s)) ELSE Raise("AttributeError", "upper")

StrLower(v) ==
    IF v.t = "str" THEN Ok(Lower(v.s)) ELSE Raise("AttributeError", "lower")

\* Decimal(str(v)): decimal.ConversionSyntax unless str(v) is a number (the
\* strings of the model are not numbers)
DecimalOfStr(v) ==
    CASE v.t = "num" -> Ok(v.d)
      [] v.t = "int" -> Ok(Dec(v.n, 0))
      [] OTHER       -> Raise("decimal.ConversionSyntax", "")

(***************************************************************************)
(* The tables of quote_normalization.py                                    *)
(***************************************************************************)
STATIC_EXCHANGE_RATES ==
    [USD |-> Dec(10, -1),    EUR |-> Dec(92, -2),   GBP |-> Dec(79, -2),
     CAD |-> Dec(136, -2),   MXN |-> Dec(1715, -2), CNY |-> Dec(724, -2),
     JPY |-> Dec(1495, -1),  INR |-> Dec(831, -1),  KRW |-> Dec(13200, -1),
     BRL |-> Dec(497, -2),   AUD |-> Dec(153, -2),  CHF |-> Dec(88, -2),
     SGD |-> Dec(134, -2),   TWD |-> Dec(315, -1),  THB |-> Dec(352, -1)]

Conv(base, m, e) == [base |-> base, factor |-> Dec(m, e)]

UNIT_CONVERSIONS ==
    ("kg" :> Conv("kg", 10, -1)) @@ ("lbs" :> Conv("kg", 453592, -6)) @@
    ("lb" :> Conv("kg", 453592, -6)) @@ ("tons" :> Conv("kg", 10000, -1)) @@
    ("oz" :> Conv("kg", 283495, -7)) @@ ("g" :> Conv("kg", 1, -3)) @@
    ("meters" :> Conv("meters", 10, -1)) @@ ("feet" :> Conv("meters", 3048, -4)) @@
    ("ft" :> Conv("meters", 3048, -4)) @@ ("inches" :> Conv("meters", 254, -4)) @@
    ("in" :> Conv("meters", 254, -4)) @@ ("yards" :> Conv("meters", 9144, -4)) @@
    ("yd" :> Conv("meters", 9144, -4)) @@ ("mm" :> Conv("meters", 1, -3)) @@
    ("cm" :> Conv("meters", 1, -2)) @@
    ("liters" :> Conv("liters", 10, -1)) @@ ("gallons" :> Conv("liters", 378541, -5)) @@
    ("gal" :> Conv("liters", 378541, -5)) @@ ("ml" :> Conv("liters", 1, -3)) @@
    ("each" :> Conv("each", 10, -1)) @@ ("pcs" :> Conv("each", 10, -1)) @@
    ("units" :> Conv("each", 10, -1)) @@ ("sets" :> Conv("sets", 10, -1)) @@
    ("lots" :> Conv("lots", 10, -1)) @@ ("rolls" :> Conv("rolls", 10, -1)) @@
    ("sheets" :> Conv("sheets", 10, -1)) @@ ("boxes" :> Conv("boxes", 10, -1)) @@
    ("pallets" :> Conv("pallets", 10, -1))

INCOTERM_ADDERS ==
    [EXW |-> Dec(0, -2), FCA |-> Dec(2, -2),  FOB |-> Dec(5, -2), CFR |-> Dec(8, -2),
     CIF |-> Dec(10, -2), DAP |-> Dec(12, -2), DDP |-> Dec(15, -2)]

\* A variant of _score_lead_time with a slip: the steps end before their bounds.
score_lead_time_exclusive(lead_time_days) ==
    IF lead_time_days.t = "None" THEN NoneV
    ELSE IF lead_time_days.n < 7 THEN IntV(100)
    ELSE IF lead_time_days.n < 14 THEN IntV(85)
    ELSE IF lead_time_days.n < 30 THEN IntV(70)
    ELSE IF lead_time_days.n < 60 THEN IntV(50)
    ELSE IF lead_time_days.n < 90 THEN IntV(30)
    ELSE IntV(10)

\* _score_lead_time
score_lead_time(lead_time_days) ==
    IF lead_time_days.t = "None" THEN NoneV
    ELSE IF lead_time_days.n <= 7 THEN IntV(100)
    ELSE IF lead_time_days.n <= 14 THEN IntV(85)
    ELSE IF lead_time_days.n <= 30 THEN IntV(70)
    ELSE IF lead_time_days.n <= 60 THEN IntV(50)
    ELSE IF lead_time_days.n <= 90 THEN IntV(30)
    ELSE IntV(10)

\* A string built by an f-string or by str(exception): its fixed text and the
\* values placed in it
FStr(text, args) == [t |-> "fstr", text |-> text, args |-> args]

ErrStr(err) == FStr(err.kind, <<err.arg>>)

\* buyer_quantity or Decimal(str(quote.get("quantity_offered", 1)))
effective_quantity(buyer_quantity, quote) ==
    IF Truthy(buyer_quantity) THEN Ok(buyer_quantity.d)
    ELSE DecimalOfStr(Get(quote, "quantity_offered", IntV(1)))

\* A variant of uom_converted_flag with a slip: the target unit is compared as
\* given, not in lower case.
uom_converted_flag_as_given(source_uom, target_uom) == source_uom # target_uom

\* source_uom != target_uom.lower()
uom_converted_flag(source_uom, target_uom) == source_uom # Lower(target_uom)

(***************************************************************************)
(* Eval[<<name, arguments>>]: the value of a method of the engine or of an *)
(* operation of decimal on its arguments.  Function application evaluates *)
(* the arguments before the call, as Python does.                          *)
(***************************************************************************)
Eval[call \in Any] ==
    \* a + b
    CASE call[1] = "NatAdd" ->
        LET a == call[2]
            b == call[3]
        IN  LET n == Max(Len(a), Len(b))
                x == PadTo[a, n]
                y == PadTo[b, n]
            IN  Carry[[i \in 1..n |-> x[i] + y[i]]]
    \* a - b for a >= b
      [] call[1] = "NatSub" ->
        LET a == call[2]
            b == call[3]
        IN  LET y == PadTo[b, Len(a)]
            IN  Borrow[[i \in 1..Len(a) |-> a[i] - y[i]]]
    \* a * m + c for integers 0 <= m <= 10000, 0 <= c < 10000: the low half of
    \* each limb product in the limb's place, its high half one place up
      [] call[1] = "NatMulSmallAdd" ->
        LET a == call[2]
            m == call[3]
            c == call[4]
        IN  Carry[[i \in 1..(Len(a) + 1) |->
                     (IF i = 1 THEN 0 ELSE (a[i - 1] * m) % 10000)
                     + (IF i = Len(a) + 1 THEN c ELSE (a[i] * m) \div 10000)]]
      [] call[1] = "NatMulSmall" ->
        LET a == call[2]
            m == call[3]
        IN  Eval[<<"NatMulSmallAdd", a, m, 0>>]
    \* a * 10000^k
      [] call[1] = "NatShiftLimbs" ->
        LET a == call[2]
            k == call[3]
        IN  IF NatIsZero(a) THEN a ELSE a \o Zeros[k]
    \* a * 10^k
      [] call[1] = "NatShift10" ->
        LET a == call[2]
            k == call[3]
        IN  Eval[<<"NatMulSmall", Eval[<<"NatShiftLimbs", a, k \div 4>>], Pow10[k % 4]>>]
    \* 10^k
      [] call[1] = "NatPow10" ->
        LET k == call[2]
        IN  Eval[<<"NatShift10", <<1>>, k>>]
    \* a * (limbs lo..hi of b, as placed in b)
      [] call[1] = "NatMulRange" ->
        LET a == call[2]
            b == call[3]
            lo == call[4]
            hi == call[5]
        IN  IF lo = hi THEN Eval[<<"NatShiftLimbs", Eval[<<"NatMulSmall", a, b[lo]>>], Len(b) - lo>>]
            ELSE Eval[<<"NatAdd", Eval[<<"NatMulRange", a, b, lo, (lo + hi) \div 2>>],
                        Eval[<<"NatMulRange", a, b, (lo + hi) \div 2 + 1, hi>>]>>]
      [] call[1] = "NatMul" ->
        LET a == call[2]
            b == call[3]
        IN  Eval[<<"NatMulRange", a, b, 1, Len(b)>>]
    \* One limb of long division by b of two limbs or more with b[1] >= 5000:
    \* x = 10000 * r + limb for a remainder r < b; <<quotient limb, remainder>>.
    \* The limb is estimated from the leading limb of b and the limbs of x above
    \* the rest of b; the estimate is the limb or up to two more.
      [] call[1] = "DivLimb" ->
        LET r == call[2]
            b == call[3]
            limb == call[4]
        IN  LET x    == Strip[r \o <<limb>>]
                low  == Len(b) - 1
                xt   == IF Len(x) <= low THEN 0 ELSE NatToInt[SubSeq(x, 1, Len(x) - low)]
                qhat == IF xt \div b[1] > 9999 THEN 9999 ELSE xt \div b[1]
                p    == Eval[<<"NatMulSmall", b, qhat>>]
            IN  IF qhat = 0 THEN <<0, x>>
                ELSE IF NatCmp[p, x] <= 0 THEN <<qhat, Eval[<<"NatSub", x, p>>]>>
                ELSE IF NatCmp[Eval[<<"NatSub", p, b>>], x] <= 0 THEN <<qhat - 1, Eval[<<"NatSub", x, Eval[<<"NatSub", p, b>>]>>]>>
                ELSE <<qhat - 2, Eval[<<"NatSub", x, Eval[<<"NatSub", Eval[<<"NatSub", p, b>>], b>>]>>]>>
    \* Long division of the limbs lo..hi of a, coming in with the remainder r of
    \* the limbs above: <<the quotient's limbs, remainder>>
      [] call[1] = "NatDivRange" ->
        LET a == call[2]
            b == call[3]
            lo == call[4]
            hi == call[5]
            r == call[6]
        IN  IF lo = hi
            THEN LET s == Eval[<<"DivLimb", r, b, a[lo]>>] IN <<<<s[1]>>, s[2]>>
            ELSE LET left  == Eval[<<"NatDivRange", a, b, lo, (lo + hi) \div 2, r>>]
                     right == Eval[<<"NatDivRange", a, b, (lo + hi) \div 2 + 1, hi, left[2]>>]
                 IN  <<left[1] \o right[1], right[2]>>
    \* divmod(a, b), b > 0: by machine integers when b is small; else both are
    \* scaled by d to bring the leading limb of b to 5000 or more, which leaves
    \* the quotient as it is and scales the remainder
      [] call[1] = "NatDivMod" ->
        LET a == call[2]
            b == call[3]
        IN  IF Len(b) = 1 \/ (Len(b) = 2 /\ b[1] <= 20)
            THEN LET s == NatDivSmallRange[a, NatToInt[b], 1, Len(a), 0]
                 IN  <<Strip[s[1]], IntToNat[s[2]]>>
            ELSE LET d  == 10000 \div (b[1] + 1)
                     ad == Eval[<<"NatMulSmall", a, d>>]
                     s  == Eval[<<"NatDivRange", ad, Eval[<<"NatMulSmall", b, d>>], 1, Len(ad), <<0>>>>]
                 IN  <<Strip[s[1]], Strip[NatDivSmallRange[s[2], d, 1, Len(s[2]), 0][1]]>>
    \* divmod(a, 10^k)
      [] call[1] = "NatDivModPow10" ->
        LET a == call[2]
            k == call[3]
        IN  LET nl == k \div 4
                hi == IF Len(a) <= nl THEN <<0>> ELSE SubSeq(a, 1, Len(a) - nl)
                lo == IF Len(a) <= nl THEN a ELSE Strip[SubSeq(a, Len(a) - nl + 1, Len(a))]
                dm == Eval[<<"NatDivMod", hi, <<Pow10[k % 4]>>>>]
            IN  IF k % 4 = 0 THEN <<hi, lo>>
                ELSE <<dm[1], Eval[<<"NatAdd", Eval[<<"NatShiftLimbs", dm[2], nl>>], lo>>]>>
    \* c / 10^k rounded to an integer, ties to the even neighbour
      [] call[1] = "RoundHalfEven" ->
        LET c == call[2]
            k == call[3]
        IN  LET dm  == Eval[<<"NatDivModPow10", c, k>>]
                cmp == NatCmp[Eval[<<"NatAdd", dm[2], dm[2]>>], Eval[<<"NatPow10", k>>]]
            IN  IF cmp > 0 \/ (cmp = 0 /\ NatIsOdd(dm[1])) THEN Eval[<<"NatAdd", dm[1], <<1>>>>] ELSE dm[1]
    \* c / 10^k rounded to an integer, ties away from zero (ROUND_HALF_UP)
      [] call[1] = "RoundHalfUp" ->
        LET c == call[2]
            k == call[3]
        IN  LET dm  == Eval[<<"NatDivModPow10", c, k>>]
                cmp == NatCmp[Eval[<<"NatAdd", dm[2], dm[2]>>], Eval[<<"NatPow10", k>>]]
            IN  IF cmp >= 0 THEN Eval[<<"NatAdd", dm[1], <<1>>>>] ELSE dm[1]
    \* Decimal._fix: the result of an operation rounded to the context's precision
      [] call[1] = "DecFix" ->
        LET d == call[2]
        IN  LET n == NatNumDigits(d.c)
            IN  IF n <= PREC THEN d
                ELSE LET k == n - PREC
                         r == Eval[<<"RoundHalfEven", d.c, k>>]
                     IN  IF NatNumDigits(r) > PREC
                         THEN [neg |-> d.neg, c |-> Eval[<<"NatDivModPow10", r, 1>>][1], e |-> d.e + k + 1]
                         ELSE [neg |-> d.neg, c |-> r, e |-> d.e + k]
    \* Decimal.__mul__
      [] call[1] = "DecMul" ->
        LET a == call[2]
            b == call[3]
        IN  IF a = NaN \/ b = NaN THEN NaN ELSE
            Eval[<<"DecFix", [neg |-> a.neg # b.neg, c |-> Eval[<<"NatMul", a.c, b.c>>], e |-> a.e + b.e]>>]
    \* Decimal.__add__ of two operands of the same sign
      [] call[1] = "DecAdd" ->
        LET a == call[2]
            b == call[3]
        IN  IF a = NaN \/ b = NaN THEN NaN ELSE
            LET e == IF a.e < b.e THEN a.e ELSE b.e
            IN  Eval[<<"DecFix", [neg |-> a.neg,
                        c   |-> Eval[<<"NatAdd", Eval[<<"NatShift10", a.c, a.e - e>>], Eval[<<"NatShift10", b.c, b.e - e>>]>>],
                        e   |-> e]>>]
    \* Decimal.__truediv__ for a divisor other than zero: the quotient to PREC + 1
    \* digits with the last digit made sticky when the division is inexact, then
    \* rounded by the context; an exact quotient is brought towards the ideal
    \* exponent a.e - b.e
      [] call[1] = "DecDiv" ->
        LET a == call[2]
            b == call[3]
        IN  IF a = NaN \/ b = NaN THEN NaN ELSE
            LET neg == a.neg # b.neg
            IN  IF DecIsZero(a) THEN Eval[<<"DecFix", [neg |-> neg, c |-> <<0>>, e |-> a.e - b.e]>>]
                ELSE
                LET shift == NatNumDigits(b.c) - NatNumDigits(a.c) + PREC + 1
                    exp   == a.e - b.e - shift
                    dm    == IF shift >= 0 THEN Eval[<<"NatDivMod", Eval[<<"NatShift10", a.c, shift>>], b.c>>]
                             ELSE Eval[<<"NatDivMod", a.c, Eval[<<"NatShift10", b.c, -shift>>]>>]
                    coeff == dm[1]
                IN  IF ~NatIsZero(dm[2])
                    THEN Eval[<<"DecFix", [neg |-> neg,
                                 c   |-> IF coeff[Len(coeff)] % 5 = 0 THEN Eval[<<"NatAdd", coeff, <<1>>>>] ELSE coeff,
                                 e   |-> exp]>>]
                    ELSE LET ideal == a.e - b.e
                             tz    == IF NatIsZero(coeff) THEN 0 ELSE NatTrailingZeros[coeff]
                             t     == IF exp >= ideal THEN 0
                                      ELSE IF tz < ideal - exp THEN tz ELSE ideal - exp
                         IN  Eval[<<"DecFix", [neg |-> neg, c |-> Eval[<<"NatDivModPow10", coeff, t>>][1], e |-> exp + t]>>]
    \* Decimal.quantize(Decimal with exponent e, rounding): [ok |-> TRUE, v |-> d]
    \* or, when the result would need more than PREC digits, [ok |-> FALSE]
    \* (decimal.InvalidOperation).  halfUp: ROUND_HALF_UP, else the context's
    \* ROUND_HALF_EVEN.
      [] call[1] = "DecQuantize" ->
        LET d == call[2]
            e == call[3]
            halfUp == call[4]
        IN  IF d = NaN THEN [ok |-> TRUE, v |-> NaN]
            ELSE IF DecIsZero(d) THEN [ok |-> TRUE, v |-> [neg |-> d.neg, c |-> <<0>>, e |-> e]]
            ELSE IF NatNumDigits(d.c) + d.e - e > PREC THEN [ok |-> FALSE]
            ELSE LET c == IF d.e >= e THEN Eval[<<"NatShift10", d.c, d.e - e>>]
                          ELSE IF halfUp THEN Eval[<<"RoundHalfUp", d.c, e - d.e>>]
                          ELSE Eval[<<"RoundHalfEven", d.c, e - d.e>>]
                 IN  IF NatNumDigits(c) > PREC THEN [ok |-> FALSE]
                     ELSE [ok |-> TRUE, v |-> [neg |-> d.neg, c |-> c, e |-> e]]
    \* -1, 0 or 1 as a < b, a = b, a > b (the comparison of two numbers by value)
      [] call[1] = "DecCmp" ->
        LET a == call[2]
            b == call[3]
        IN  LET e  == IF a.e < b.e THEN a.e ELSE b.e
                x  == Eval[<<"NatShift10", a.c, a.e - e>>]
                y  == Eval[<<"NatShift10", b.c, b.e - e>>]
                sa == IF NatIsZero(x) THEN 0 ELSE IF a.neg THEN -1 ELSE 1
                sb == IF NatIsZero(y) THEN 0 ELSE IF b.neg THEN -1 ELSE 1
            IN  IF sa # sb THEN (IF sa < sb THEN -1 ELSE 1)
                ELSE IF sa = 0 THEN 0
                ELSE sa * NatCmp[x, y]
    \* Decimal.__sub__
      [] call[1] = "DecSub" ->
        LET a == call[2]
            b == call[3]
        IN  IF a = NaN \/ b = NaN THEN NaN ELSE
            LET e == IF a.e < b.e THEN a.e ELSE b.e
                x == Eval[<<"NatShift10", a.c, a.e - e>>]
                y == Eval[<<"NatShift10", b.c, b.e - e>>]
            IN  IF a.neg # b.neg THEN Eval[<<"DecFix", [neg |-> a.neg, c |-> Eval[<<"NatAdd", x, y>>], e |-> e]>>]
                ELSE IF NatCmp[x, y] >= 0 THEN Eval[<<"DecFix", [neg |-> a.neg, c |-> Eval[<<"NatSub", x, y>>], e |-> e]>>]
                ELSE Eval[<<"DecFix", [neg |-> ~a.neg, c |-> Eval[<<"NatSub", y, x>>], e |-> e]>>]
    \* float(d): a double carries 15 to 17 significant decimal digits.  A Decimal
    \* of at most 15 digits converts to the double that prints back as itself;
    \* a longer one is rounded to 17 digits.
      [] call[1] = "Float" ->
        LET d == call[2]
        IN  IF d = NaN THEN NumV(NaN)
            ELSE IF NatNumDigits(d.c) <= 15 THEN NumV(d)
            ELSE LET k == NatNumDigits(d.c) - 17
                 IN  IF k <= 0 THEN NumV(d)
                     ELSE NumV([neg |-> d.neg, c |-> Eval[<<"RoundHalfEven", d.c, k>>], e |-> d.e + k])
    \* x < y on two floats: False when either is nan
      [] call[1] = "FloatLt" ->
        LET x == call[2]
            y == call[3]
        IN  x # NaN /\ y # NaN /\ Eval[<<"DecCmp", x, y>>] < 0
    (***************************************************************************)
    (* QuoteNormalizationEngine                                                *)
    (***************************************************************************)
    \* _get_rate
      [] call[1] = "get_rate" ->
        LET rates == call[2]
            from_currency == call[3]
            to_currency == call[4]
        IN  IF from_currency = to_currency THEN Ok(Dec(10, -1))
            ELSE IF from_currency \notin DOMAIN rates
                 THEN Raise("Unsupported currency: ", from_currency)
            ELSE IF to_currency \notin DOMAIN rates
                 THEN Raise("Unsupported currency: ", to_currency)
            ELSE LET q == Eval[<<"DecQuantize", Eval[<<"DecDiv", rates[to_currency], rates[from_currency]>>], -6, FALSE>>]
                 IN  IF q.ok THEN Ok(q.v) ELSE Raise("decimal.InvalidOperation", "")
    \* _convert_currency
      [] call[1] = "convert_currency" ->
        LET rates == call[2]
            amount == call[3]
            from_currency == call[4]
            to_currency == call[5]
        IN  IF from_currency = to_currency THEN Ok(amount)
            ELSE LET rate == Eval[<<"get_rate", rates, from_currency, to_currency>>]
                 IN  IF rate.ok THEN Ok(Eval[<<"DecMul", amount, rate.v>>]) ELSE rate
    \* _convert_uom
      [] call[1] = "convert_uom" ->
        LET price_per_unit == call[2]
            from_uom == call[3]
            to_uom == call[4]
        IN  IF from_uom = to_uom THEN price_per_unit
            ELSE IF from_uom \notin DOMAIN UNIT_CONVERSIONS \/ to_uom \notin DOMAIN UNIT_CONVERSIONS
                 THEN price_per_unit
            ELSE LET from_conv == UNIT_CONVERSIONS[from_uom]
                     to_conv   == UNIT_CONVERSIONS[to_uom]
                 IN  IF from_conv.base # to_conv.base THEN price_per_unit
                     ELSE Eval[<<"DecDiv", price_per_unit, Eval[<<"DecDiv", from_conv.factor, to_conv.factor>>]>>]
    \* _adjust_incoterm
      [] call[1] = "adjust_incoterm" ->
        LET price == call[2]
            from_incoterm == call[3]
            to_incoterm == call[4]
        IN  IF from_incoterm = to_incoterm THEN price
            ELSE LET from_adder == Get(INCOTERM_ADDERS, from_incoterm, Dec(5, -2))
                     to_adder   == Get(INCOTERM_ADDERS, to_incoterm, Dec(5, -2))
                     exw_price  == Eval[<<"DecDiv", price, Eval[<<"DecAdd", Dec(10, -1), from_adder>>]>>]
                 IN  Eval[<<"DecMul", exw_price, Eval[<<"DecAdd", Dec(10, -1), to_adder>>]>>]
    \* (price_landed * quantity).quantize(Decimal("0.01"), rounding=ROUND_HALF_UP)
      [] call[1] = "quote_total" ->
        LET price_landed == call[2]
            quantity == call[3]
        IN  Eval[<<"DecQuantize", Eval[<<"DecMul", price_landed, quantity>>], -2, TRUE>>]
    \* _normalize_single_quote: Ok(the record) or the exception raised.
    \* buyer_quantity is None or a Decimal.
      [] call[1] = "normalize_single_quote" ->
        LET rates == call[2]
            quote == call[3]
            target_currency == call[4]
            target_uom == call[5]
            target_incoterm == call[6]
            buyer_quantity == call[7]
        IN  LET original_price == DecimalOfStr(Get(quote, "unit_price", IntV(0)))
            IN  IF ~original_price.ok THEN original_price ELSE
            LET source_currency == StrUpper(Get(quote, "currency", StrV("USD")))
            IN  IF ~source_currency.ok THEN source_currency ELSE
            LET source_uom == StrLower(Get(quote, "unit_of_measure", StrV(target_uom)))
            IN  IF ~source_uom.ok THEN source_uom ELSE
            LET source_incoterm == StrUpper(Get(quote, "incoterm", StrV("FOB")))
            IN  IF ~source_incoterm.ok THEN source_incoterm ELSE
            \* Step 1: Currency conversion
            LET price_in_target ==
                    Eval[<<"convert_currency", rates, original_price.v, source_currency.v, target_currency>>]
            IN  IF ~price_in_target.ok THEN price_in_target ELSE
            \* Step 2: Unit of measure conversion
            LET price_in_target_uom ==
                    Eval[<<"convert_uom", price_in_target.v, source_uom.v, Lower(target_uom)>>]
            \* Step 3: Incoterm / freight adjustment
                price_landed ==
                    Eval[<<"adjust_incoterm", price_in_target_uom, source_incoterm.v, target_incoterm>>]
            \* Step 4: Calculate total
                quantity == effective_quantity(buyer_quantity, quote)
            IN  IF ~quantity.ok THEN quantity ELSE
            LET total == Eval[<<"quote_total", price_landed, quantity.v>>]
            IN  IF ~total.ok THEN Raise("decimal.InvalidOperation", "") ELSE
            \* Step 5: MOQ check
            LET moq == Get(quote, "moq", NoneV)
                moq_decimal == IF Truthy(moq) /\ Truthy(buyer_quantity)
                               THEN DecimalOfStr(moq) ELSE Ok(Dec(0, 0))
            IN  IF ~moq_decimal.ok THEN moq_decimal ELSE
            \* an ordering comparison of Decimals signals on NaN
            IF Truthy(moq) /\ Truthy(buyer_quantity)
               /\ (moq_decimal.v = NaN \/ buyer_quantity.d = NaN)
            THEN Raise("decimal.InvalidOperation", "") ELSE
            LET moq_warning ==
                    IF Truthy(moq) /\ Truthy(buyer_quantity)
                       /\ Eval[<<"DecCmp", moq_decimal.v, buyer_quantity.d>>] > 0
                    THEN FStr("MOQ ({}) exceeds your requested quantity ({})",
                              <<moq, buyer_quantity>>)
                    ELSE NoneV
            \* Step 6: Lead time score
                lead_time == Get(quote, "lead_time_days", NoneV)
                lead_time_score == score_lead_time(lead_time)
                unit_price == Eval[<<"DecQuantize", price_landed, -4, TRUE>>]
            IN  IF ~unit_price.ok THEN Raise("decimal.InvalidOperation", "") ELSE
            LET rate == Eval[<<"get_rate", rates, source_currency.v, target_currency>>]
            IN  IF ~rate.ok THEN rate ELSE
            Ok([normalized_unit_price |-> Eval[<<"Float", unit_price.v>>],
                normalized_total      |-> Eval[<<"Float", total.v>>],
                currency_converted    |-> BoolV(source_currency.v # target_currency),
                uom_converted         |-> BoolV(uom_converted_flag(source_uom.v, target_uom)),
                incoterm_adjusted     |-> BoolV(source_incoterm.v # target_incoterm),
                exchange_rate_used    |-> Eval[<<"Float", rate.v>>],
                lead_time_score       |-> lead_time_score,
                moq_warning           |-> moq_warning,
                normalization_details |->
                    [t |-> "dict",
                     original   |-> [price |-> Eval[<<"Float", original_price.v>>],
                                     currency |-> StrV(source_currency.v),
                                     uom |-> StrV(source_uom.v),
                                     incoterm |-> StrV(source_incoterm.v)],
                     normalized |-> [price |-> Eval[<<"Float", price_landed>>],
                                     currency |-> StrV(target_currency),
                                     uom |-> StrV(target_uom),
                                     incoterm |-> StrV(target_incoterm)]]]
               @@ quote)
    \* round((worst - best) / worst * 100, 1), computed on doubles in the code
      [] call[1] = "savings_pct" ->
        LET best == call[2]
            worst == call[3]
            diff  == Eval[<<"Float", Eval[<<"DecSub", worst, best>>]>>].d
            ratio == Eval[<<"Float", Eval[<<"DecDiv", diff, worst>>]>>].d
            pct   == Eval[<<"Float", Eval[<<"DecMul", ratio, Dec(100, 0)>>]>>].d
        IN  Eval[<<"Float", Eval[<<"DecQuantize", pct, -1, FALSE>>].v>>]

\* The operations and methods by name
DecMul(a, b) == Eval[<<"DecMul", a, b>>]
DecDiv(a, b) == Eval[<<"DecDiv", a, b>>]
DecSub(a, b) == Eval[<<"DecSub", a, b>>]
DecCmp(a, b) == Eval[<<"DecCmp", a, b>>]
DecQuantize(d, e, halfUp) == Eval[<<"DecQuantize", d, e, halfUp>>]
Float(d) == Eval[<<"Float", d>>]
FloatLt(x, y) == Eval[<<"FloatLt", x, y>>]
\* A variant of _get_rate with a slip: the rate is from_usd / to_usd.
get_rate_inverted(rates, from_currency, to_currency) ==
    Eval[<<"get_rate", rates, to_currency, from_currency>>]

get_rate(rates, from_currency, to_currency) ==
    Eval[<<"get_rate", rates, from_currency, to_currency>>]
convert_currency(rates, amount, from_currency, to_currency) ==
    Eval[<<"convert_currency", rates, amount, from_currency, to_currency>>]
\* A variant of _convert_uom with a slip: the factor is to_factor / from_factor.
convert_uom_inverted(price_per_unit, from_uom, to_uom) ==
    Eval[<<"convert_uom", price_per_unit, to_uom, from_uom>>]

convert_uom(price_per_unit, from_uom, to_uom) ==
    Eval[<<"convert_uom", price_per_unit, from_uom, to_uom>>]
\* A variant of _adjust_incoterm with a slip: a code that is not in the table
\* adds nothing.
adjust_incoterm_no_default(price, from_incoterm, to_incoterm) ==
    IF from_incoterm = to_incoterm THEN price
    ELSE Eval[<<"DecMul",
                Eval[<<"DecDiv", price,
                       Eval[<<"DecAdd", Dec(10, -1),
                              Get(INCOTERM_ADDERS, from_incoterm, Dec(0, -2))>>]>>],
                Eval[<<"DecAdd", Dec(10, -1),
                       Get(INCOTERM_ADDERS, to_incoterm, Dec(0, -2))>>]>>]

\* A variant of _adjust_incoterm with a slip: the two adders change places.
adjust_incoterm_swapped(price, from_incoterm, to_incoterm) ==
    Eval[<<"adjust_incoterm", price, to_incoterm, from_incoterm>>]

adjust_incoterm(price, from_incoterm, to_incoterm) ==
    Eval[<<"adjust_incoterm", price, from_incoterm, to_incoterm>>]
quote_total(price_landed, quantity) == Eval[<<"quote_total", price_landed, quantity>>]
\* A variant of normalize_single_quote with a slip: the unit price is rounded
\* up to 4 decimals.
normalize_single_quote_rounding_up(rates, quote, target_currency, target_uom, target_incoterm, buyer_quantity) ==
    LET out == Eval[<<"normalize_single_quote", rates, quote, target_currency, target_uom,
                      target_incoterm, buyer_quantity>>]
    IN  IF ~out.ok THEN out
        ELSE LET landed == out.v.normalization_details.normalized.price.d
                 near   == out.v.normalized_unit_price.d
             IN  IF landed = NaN \/ near = NaN THEN out
                 ELSE IF Eval[<<"DecCmp", near, landed>>] < 0
                 THEN Ok([normalized_unit_price |->
                             Eval[<<"Float", Eval[<<"DecAdd", near, Dec(1, -4)>>]>>]] @@ out.v)
                 ELSE out

\* A variant of normalize_single_quote with a slip: the rate recorded is the
\* rate from the target currency to the source currency.
normalize_single_quote_reverse_rate(rates, quote, target_currency, target_uom, target_incoterm, buyer_quantity) ==
    LET out == Eval[<<"normalize_single_quote", rates, quote, target_currency, target_uom,
                      target_incoterm, buyer_quantity>>]
    IN  IF ~out.ok THEN out
        ELSE LET back_rate == Eval[<<"get_rate", rates, target_currency,
                                     out.v.normalization_details.original.currency.s>>]
             IN  IF ~back_rate.ok THEN out
                 ELSE Ok([exchange_rate_used |-> Eval[<<"Float", back_rate.v>>]] @@ out.v)

\* A variant of normalize_single_quote with a slip: the quote's unit is looked
\* up as it is written, so a unit with a capital letter is not found.
normalize_single_quote_units_as_given(rates, quote, target_currency, target_uom, target_incoterm, buyer_quantity) ==
    IF "unit_of_measure" \in DOMAIN quote /\ quote.unit_of_measure.t = "str"
       /\ Lower(quote.unit_of_measure.s) # quote.unit_of_measure.s
    THEN LET out == Eval[<<"normalize_single_quote", rates,
                           [unit_of_measure |-> StrV("no such unit")] @@ quote,
                           target_currency, target_uom, target_incoterm, buyer_quantity>>]
         IN  IF out.ok THEN Ok([unit_of_measure |-> quote.unit_of_measure] @@ out.v)
             ELSE out
    ELSE Eval[<<"normalize_single_quote", rates, quote, target_currency, target_uom,
                target_incoterm, buyer_quantity>>]

\* A variant of normalize_single_quote with a slip: the source currency is
\* looked up in the rate table before it is compared with the target's.
normalize_single_quote_table_first(rates, quote, target_currency, target_uom, target_incoterm, buyer_quantity) ==
    IF Get(quote, "currency", StrV("USD")).t = "str"
       /\ Upper(Get(quote, "currency", StrV("USD")).s) \notin DOMAIN rates
       /\ DecimalOfStr(Get(quote, "unit_price", IntV(0))).ok
    THEN Raise("Unsupported currency: ", Upper(Get(quote, "currency", StrV("USD")).s))
    ELSE Eval[<<"normalize_single_quote", rates, quote, target_currency, target_uom,
                target_incoterm, buyer_quantity>>]

normalize_single_quote(rates, quote, target_currency, target_uom, target_incoterm, buyer_quantity) ==
    Eval[<<"normalize_single_quote", rates, quote, target_currency, target_uom,
           target_incoterm, buyer_quantity>>]
DecAdd(a, b) == Eval[<<"DecAdd", a, b>>]
savings_pct(best, worst) == Eval[<<"savings_pct", best, worst>>]

\* Variants of the try statement with a slip in the except branch, against
\* which the properties below are checked as well.
\* Nothing is appended to normalized for the failed quote.
try_except_dropping(quote, outcome) ==
    IF outcome.ok THEN [normalized |-> <<outcome.v>>, warnings |-> <<>>]
    ELSE LET supplier == Get(quote, "supplier_name",
                             Get(quote, "supplier_id", StrV("Unknown")))
         IN  [normalized |-> <<>>,
              warnings   |-> <<FStr("Could not normalize quote from {}: {}",
                                    <<supplier, ErrStr(outcome.err)>>)>>]

\* Nothing is appended to warnings.
try_except_silent(quote, outcome) ==
    IF outcome.ok THEN [normalized |-> <<outcome.v>>, warnings |-> <<>>]
    ELSE [normalized |-> <<[normalized_unit_price |-> NoneV,
                            normalized_total      |-> NoneV,
                            normalization_error   |-> ErrStr(outcome.err)]
                           @@ quote>>,
          warnings   |-> <<>>]

\* The handler catches ValueError only: any other exception leaves the loop.
try_except_value_error(quote, outcome) ==
    IF outcome.ok THEN [normalized |-> <<outcome.v>>, warnings |-> <<>>]
    ELSE IF outcome.err.kind # "Unsupported currency: " THEN [raised |-> outcome.err]
    ELSE LET supplier == Get(quote, "supplier_name",
                             Get(quote, "supplier_id", StrV("Unknown")))
         IN  [normalized |-> <<[normalized_unit_price |-> NoneV,
                                normalized_total      |-> NoneV,
                                normalization_error   |-> ErrStr(outcome.err)]
                               @@ quote>>,
              warnings   |-> <<FStr("Could not normalize quote from {}: {}",
                                    <<supplier, ErrStr(outcome.err)>>)>>]

\* The error record has no normalized_total.
try_except_no_total(quote, outcome) ==
    IF outcome.ok THEN [normalized |-> <<outcome.v>>, warnings |-> <<>>]
    ELSE LET supplier == Get(quote, "supplier_name",
                             Get(quote, "supplier_id", StrV("Unknown")))
         IN  [normalized |-> <<[normalized_unit_price |-> NoneV,
                                normalization_error   |-> ErrStr(outcome.err)]
                               @@ quote>>,
              warnings   |-> <<FStr("Could not normalize quote from {}: {}",
                                    <<supplier, ErrStr(outcome.err)>>)>>]

\* The try statement in the loop of normalize_quotes, given the outcome of
\* _normalize_single_quote on the quote: what is appended to normalized and
\* to warnings.  `except Exception` catches whatever the call raises.
try_except(quote, outcome) ==
    IF outcome.ok THEN [normalized |-> <<outcome.v>>, warnings |-> <<>>]
    ELSE LET supplier == Get(quote, "supplier_name",
                             Get(quote, "supplier_id", StrV("Unknown")))
         IN  [normalized |-> <<[normalized_unit_price |-> NoneV,
                                normalized_total      |-> NoneV,
                                normalization_error   |-> ErrStr(outcome.err)]
                               @@ quote>>,
              warnings   |-> <<FStr("Could not normalize quote from {}: {}",
                                    <<supplier, ErrStr(outcome.err)>>)>>]

\* A variant of normalize_step with a slip, against which the properties below
\* are checked as well.
\* The total is taken from the price as reported, after its rounding to 4
\* decimals.
normalize_step_rounded_total(rates, quote, buyer_currency, buyer_uom, buyer_incoterm, buyer_quantity) ==
    LET step == try_except(quote, normalize_single_quote(rates, quote, buyer_currency, buyer_uom,
                                                         buyer_incoterm, buyer_quantity))
    IN  IF step.warnings # <<>> THEN step
        ELSE [step EXCEPT !.normalized =
                  <<[normalized_total |->
                        Float(DecQuantize(DecMul(step.normalized[1].normalized_unit_price.d,
                                                 effective_quantity(buyer_quantity, quote).v),
                                          -2, TRUE).v)]
                    @@ step.normalized[1]>>]

\* One pass of the loop of normalize_quotes over a quote
normalize_step(rates, quote, buyer_currency, buyer_uom, buyer_incoterm, buyer_quantity) ==
    try_except(quote, normalize_single_quote(rates, quote, buyer_currency, buyer_uom,
                                             buyer_incoterm, buyer_quantity))

\* The loop of normalize_quotes: normalized and warnings after it, or
\* [raised |-> the exception] when a pass lets an exception out, which ends
\* the loop
normalize_all(rates, quotes, buyer_currency, buyer_uom, buyer_incoterm, buyer_quantity) ==
    LET RECURSIVE loop(_)
        loop(i) ==
            IF i > Len(quotes) THEN [normalized |-> <<>>, warnings |-> <<>>]
            ELSE LET step == normalize_step(rates, quotes[i], buyer_currency, buyer_uom,
                                            buyer_incoterm, buyer_quantity)
                     rest == loop(i + 1)
                 IN  IF "raised" \in DOMAIN step THEN step
                     ELSE IF "raised" \in DOMAIN rest THEN rest
                     ELSE [normalized |-> step.normalized \o rest.normalized,
                           warnings   |-> step.warnings \o rest.warnings]
    IN  loop(1)

\* list.sort() of CPython on fewer than 64 elements, on the list a of n
\* elements with lt[x, y] telling whether x < y: the run that starts the list
\* is found by comparing neighbours, reversed when strictly descending, and
\* each later element is put in place by binary insertion.  When < orders
\* the elements totally this is the stable ascending order.
list_sort(a0, lt) ==
    LET n == Len(a0)
        descending == lt[a0[2], a0[1]]
        RECURSIVE count_run(_)
        count_run(k) == IF k <= n /\ (lt[a0[k], a0[k - 1]] <=> descending)
                        THEN count_run(k + 1) ELSE k - 1
        run == count_run(3)
        a1  == [p \in 1..n |-> IF descending /\ p <= run THEN a0[run + 1 - p] ELSE a0[p]]
        RECURSIVE bisect(_, _, _, _)
        bisect(a, pivot, l, r) ==
            IF l >= r THEN l
            ELSE LET p == l + (r - l) \div 2
                 IN  IF lt[pivot, a[p + 1]] THEN bisect(a, pivot, l, p)
                     ELSE bisect(a, pivot, p + 1, r)
        RECURSIVE binarysort(_, _)
        binarysort(a, start) ==
            IF start > n THEN a
            ELSE LET l == bisect(a, a[start], 0, start - 1)
                 IN  binarysort([p \in 1..n |-> IF p <= l \/ p > start THEN a[p]
                                                ELSE IF p = l + 1 THEN a[start]
                                                ELSE a[p - 1]],
                                start + 1)
    IN  IF n < 2 THEN a0 ELSE binarysort(a1, run + 1)

\* sorted(..., key = normalized_unit_price) over the records of normalized
\* whose price is not None, as the sequence of their indices
sorted_by_price(normalized) ==
    LET R == {i \in 1..Len(normalized) : normalized[i].normalized_unit_price.t # "None"}
    IN  list_sort([p \in 1..Cardinality(R) |->
                      CHOOSE i \in R : Cardinality({j \in R : j < i}) = p - 1],
                  [i \in R, j \in R |-> FloatLt(normalized[i].normalized_unit_price.d,
                                                normalized[j].normalized_unit_price.d)])

\* A variant of with_ranks with a slip: the ranks count from 0.
with_ranks_from_zero(normalized, order) ==
    [i \in 1..Len(normalized) |->
        IF \E p \in 1..Len(order) : order[p] = i
        THEN [rank |-> IntV((CHOOSE p \in 1..Len(order) : order[p] = i) - 1)] @@ normalized[i]
        ELSE normalized[i]]

\* A variant of with_ranks with a slip: the ranks follow the order of
\* normalized, not the sorted order.
with_ranks_in_input_order(normalized, order) ==
    [i \in 1..Len(normalized) |->
        IF \E p \in 1..Len(order) : order[p] = i
        THEN [rank |-> IntV(Cardinality({p \in 1..Len(order) : order[p] <= i}))]
             @@ normalized[i]
        ELSE normalized[i]]

\* q["rank"] = i on the records of ranked, which are records of normalized:
\* order[p] is the index in normalized of the p-th record of ranked
with_ranks(normalized, order) ==
    [i \in 1..Len(normalized) |->
        IF \E p \in 1..Len(order) : order[p] = i
        THEN [rank |-> IntV(CHOOSE p \in 1..Len(order) : order[p] = i)] @@ normalized[i]
        ELSE normalized[i]]

\* A variant of savings_warning with a slip: more than 2 ranked quotes are
\* asked for.
savings_warning_over_two(ranked) ==
    IF Len(ranked) > 2
       /\ FloatLt(Dec(0, 0), ranked[Len(ranked)].normalized_unit_price.d)
    THEN <<FStr("Potential savings: {}% between lowest and highest quote.",
                <<savings_pct(ranked[1].normalized_unit_price.d,
                              ranked[Len(ranked)].normalized_unit_price.d)>>)>>
    ELSE <<>>

\* The savings message put before the other warnings
savings_warning(ranked) ==
    IF Len(ranked) >= 2
       /\ FloatLt(Dec(0, 0), ranked[Len(ranked)].normalized_unit_price.d)
    THEN <<FStr("Potential savings: {}% between lowest and highest quote.",
                <<savings_pct(ranked[1].normalized_unit_price.d,
                              ranked[Len(ranked)].normalized_unit_price.d)>>)>>
    ELSE <<>>

\* A variant of returned_dict with a slip: the savings message is appended to
\* the warnings.
returned_dict_savings_last(buyer_currency, buyer_uom, buyer_incoterm, normalized, ranked, warnings) ==
    [base_currency     |-> StrV(buyer_currency),
     base_uom          |-> StrV(buyer_uom),
     base_incoterm     |-> StrV(buyer_incoterm),
     normalized_quotes |-> normalized,
     ranking           |-> [p \in 1..Len(ranked) |->
                              [rank                  |-> ranked[p].rank,
                               supplier_id           |-> Get(ranked[p], "supplier_id", NoneV),
                               supplier_name         |-> Get(ranked[p], "supplier_name", NoneV),
                               normalized_unit_price |-> ranked[p].normalized_unit_price]],
     warnings          |-> warnings \o savings_warning(ranked)]

\* The dict normalize_quotes returns
returned_dict(buyer_currency, buyer_uom, buyer_incoterm, normalized, ranked, warnings) ==
    [base_currency     |-> StrV(buyer_currency),
     base_uom          |-> StrV(buyer_uom),
     base_incoterm     |-> StrV(buyer_incoterm),
     normalized_quotes |-> normalized,
     ranking           |-> [p \in 1..Len(ranked) |->
                              [rank                  |-> ranked[p].rank,
                               supplier_id           |-> Get(ranked[p], "supplier_id", NoneV),
                               supplier_name         |-> Get(ranked[p], "supplier_name", NoneV),
                               normalized_unit_price |-> ranked[p].normalized_unit_price]],
     warnings          |-> savings_warning(ranked) \o warnings]

\* normalize_quotes after its loop, and after the sort
ranked_quotes(buyer_currency, buyer_uom, buyer_incoterm, normalized, order, warnings) ==
    returned_dict(buyer_currency, buyer_uom, buyer_incoterm, normalized,
                  [p \in 1..Len(order) |-> normalized[order[p]]], warnings)

rank_quotes(buyer_currency, buyer_uom, buyer_incoterm, all, order) ==
    ranked_quotes(buyer_currency, buyer_uom, buyer_incoterm,
                  with_ranks(all.normalized, order), order, all.warnings)

\* A variant of sort_quotes with a slip: best and worst are taken from ranked
\* before its length is looked at, which fails on an empty ranked.
sort_quotes_unguarded(buyer_currency, buyer_uom, buyer_incoterm, all) ==
    IF "raised" \in DOMAIN all THEN all
    ELSE IF sorted_by_price(all.normalized) = <<>>
         THEN [raised |-> Raise("list index out of range", "").err]
    ELSE rank_quotes(buyer_currency, buyer_uom, buyer_incoterm, all,
                     sorted_by_price(all.normalized))

\* An exception that left the loop leaves normalize_quotes
sort_quotes(buyer_currency, buyer_uom, buyer_incoterm, all) ==
    IF "raised" \in DOMAIN all THEN all
    ELSE rank_quotes(buyer_currency, buyer_uom, buyer_incoterm, all,
                     sorted_by_price(all.normalized))

\* normalize_quotes: the dict returned, or [raised |-> the exception].
\* buyer_incoterm is a str or None, buyer_quantity a Decimal or None; quotes
\* is a list of dicts.
normalize_quotes(rates, buyer_currency, buyer_uom, buyer_quantity, buyer_incoterm, quotes) ==
    sort_quotes(Upper(buyer_currency), buyer_uom,
                IF Truthy(buyer_incoterm) THEN Upper(buyer_incoterm.s) ELSE "FOB",
                normalize_all(rates, quotes, Upper(buyer_currency), buyer_uom,
                              IF Truthy(buyer_incoterm) THEN Upper(buyer_incoterm.s)
                              ELSE "FOB",
                              buyer_quantity))

(***************************************************************************)
(* The dict objects.  quote[i] is the i-th dict the caller passed; the     *)
(* records of normalized are made by the dict displays of lines 231 and    *)
(* 158 ({**quote, ...}), each a new object.                                *)
(***************************************************************************)
\* A variant of record_object with a slip: the record is the quote itself,
\* updated in place.
record_object_aliased(i) == [quote |-> i]

\* The object that normalized[i] is
record_object(i) == [created |-> i]

\* The item assignments of normalize_quotes, q["rank"] = i over ranked: ranked
\* holds the objects of normalized whose price is not None
rank_assignments(normalized) ==
    {[object |-> record_object(i), key |-> "rank", value |-> normalized[i].rank] :
        i \in {j \in 1..Len(normalized) : "rank" \in DOMAIN normalized[j]}}

\* The caller's dicts after the item assignments made by a call
quotes_after(quotes, assignments) ==
    [i \in 1..Len(quotes) |->
        [k \in {a.key : a \in {b \in assignments : b.object = [quote |-> i]}} |->
            (CHOOSE a \in assignments : a.object = [quote |-> i] /\ a.key = k).value]
        @@ quotes[i]]

\* The caller's dicts after normalize_quotes returned or raised
quotes_after_call(quotes, returned) ==
    IF "raised" \in DOMAIN returned THEN quotes
    ELSE quotes_after(quotes, rank_assignments(returned.normalized_quotes))

(***************************************************************************)
(* The calls made on the engine.  A quote is a dict with the fields of     *)
(* QuoteInput, any of which may be absent or hold a value of another type. *)
(***************************************************************************)
MaxBatch == 2

SupplierIds == <<"S1", "S2", "S3", "S4", "S5", "S6", "S7">>
SupplierNames == <<"Acme", "Bolt", "Coil", "Dyne", "Echo", "Flux", "Gear">>

\* The fields a quote of each shape carries besides the supplier's
ShapeFields ==
    [A   |-> [unit_price |-> NumV(Dec(100, -1))],
     B   |-> [unit_price |-> NumV(Dec(92, -1)), currency |-> StrV("EUR")],
     X   |-> [unit_price |-> NumV(Dec(50, -1)), currency |-> StrV("XXX")],
     Xid |-> [unit_price |-> NumV(Dec(50, -1)), currency |-> StrV("XXX")],
     Xan |-> [unit_price |-> NumV(Dec(50, -1)), currency |-> StrV("XXX")],
     N   |-> [unit_price |-> NumV(NaN)],
     Z   |-> [currency |-> StrV("USD")],
     PS  |-> [unit_price |-> StrV("abc")],
     PN  |-> [unit_price |-> NoneV],
     U1  |-> [unit_price |-> NumV(Dec(125, -1)), unit_of_measure |-> StrV("kg")],
     U2  |-> [unit_price |-> NumV(Dec(725, -2)), unit_of_measure |-> StrV("bogus")],
     QN  |-> [unit_price |-> NumV(Dec(725, -2)), quantity_offered |-> NoneV],
     Q3  |-> [unit_price |-> NumV(Dec(725, -2)), quantity_offered |-> IntV(3),
              moq |-> IntV(5000), lead_time_days |-> IntV(20)],
     P3  |-> [unit_price |-> NumV(Dec(4, -5)), incoterm |-> StrV("CIF")],
     CN  |-> [unit_price |-> NumV(Dec(30, -1)), currency |-> NoneV],
     Ce  |-> [unit_price |-> NumV(Dec(92, -1)), currency |-> StrV("eur"),
              unit_of_measure |-> StrV("Lbs")],
     P1  |-> [unit_price |-> NumV(Dec(10, -1))],
     P05 |-> [unit_price |-> NumV(Dec(5, -1))],
     IU  |-> [unit_price |-> NumV(Dec(21, 0)), incoterm |-> StrV("ZZZ")],
     M5  |-> [unit_price |-> NumV(Dec(725, -2)), moq |-> IntV(500),
              lead_time_days |-> IntV(91)],
     M1  |-> [unit_price |-> NumV(Dec(8, 0)), moq |-> IntV(1000),
              lead_time_days |-> IntV(7)],
     EK  |-> [unit_price |-> NumV(Dec(100, -1)), currency |-> StrV("EUR"),
              unit_of_measure |-> StrV("kg"), incoterm |-> StrV("FOB")],
     IcN |-> [unit_price |-> NumV(Dec(100, -1)), incoterm |-> NoneV],
     UmN |-> [unit_price |-> NumV(Dec(100, -1)), unit_of_measure |-> NoneV]]

Catalogue == {"A", "B", "X", "Xid", "Xan", "N", "Z", "PS", "PN", "U1", "U2", "QN", "Q3",
              "P3", "CN", "Ce"}

\* The quote of a shape at position k of a batch
Quote(shape, k) ==
    LET id   == IF shape = "Xan" THEN <<>> ELSE [supplier_id |-> StrV(SupplierIds[k])]
        name == IF shape \in {"Xid", "Xan"} THEN <<>>
                ELSE [supplier_name |-> StrV(SupplierNames[k])]
    IN  ShapeFields[shape] @@ id @@ name

Batch(shapes) == [k \in 1..Len(shapes) |-> Quote(shapes[k], k)]

\* Further batches, most of them longer than MaxBatch: prices around a nan,
\* ties among nans, a failing quote between two that tie, an incoterm that is
\* not in the table next to MOQs below, at and above a requested quantity of
\* 1000, a failing quote between two of different prices, a quote in euros
\* per kg, quotes whose incoterm and unit are None, a failing quote between
\* two that the sort exchanges, two quotes that fail for different reasons
\* among two of different prices
LongBatches ==
    {<<"A", "N", "U2">>, <<"A", "X", "B">>,
     <<"N", "N", "P1", "P05", "N", "P05", "P05">>,
     <<"IU", "M5", "M1", "Q3">>, <<"P1", "X", "A">>, <<"EK">>,
     <<"IcN", "UmN", "A">>, <<"A", "X", "P1">>,
     <<"X", "P1", "PS", "A">>}

Target(currency, uom, quantity, incoterm) ==
    [buyer_currency |-> currency, buyer_uom |-> uom, buyer_quantity |-> quantity,
     buyer_incoterm |-> incoterm]

Targets ==
    {Target("USD", "each", NoneV, StrV("FOB")),
     Target("USD", "each", NumV(Dec(1000, 0)), StrV("FOB")),
     Target("USD", "each", NumV(Dec(0, 0)), StrV("FOB")),
     Target("USD", "lbs", NoneV, StrV("FOB")),
     Target("USD", "each", NoneV, StrV("CIF")),
     Target("XXX", "each", NoneV, StrV("FOB")),
     Target("eur", "KG", NoneV, NoneV)}

\* QuoteInput: the defaults of the fields a request leaves out
QuoteInputDefaults ==
    [currency |-> StrV("USD"), unit_of_measure |-> StrV("each"),
     quantity_offered |-> NoneV, moq |-> NoneV, lead_time_days |-> NoneV,
     incoterm |-> StrV("FOB")]

\* The shapes a QuoteInput can take: every field of its declared type
ApiCatalogue == {"A", "X", "N", "U1", "Q3"}

QuoteInput(shape, k) == Quote(shape, k) @@ QuoteInputDefaults

\* NormalizeQuotesRequest with the defaults of buyer_currency, buyer_uom and
\* buyer_incoterm
NormalizeQuotesRequest(buyer_quantity, quotes) ==
    [buyer_currency |-> "USD", buyer_uom |-> "each", buyer_quantity |-> buyer_quantity,
     buyer_incoterm |-> StrV("FOB"), quotes |-> quotes]

ApiQuantities == {NoneV, NumV(Dec(0, 0)), NumV(Dec(1000, 0))}

Currencies == DOMAIN STATIC_EXCHANGE_RATES
Amounts == {Dec(1000, 0), Dec(125, -1), Dec(1, -2)}

\* The arguments of the calls made on _get_rate, _convert_uom,
\* _adjust_incoterm and _score_lead_time: codes and units of the tables and
\* some that are in none
Codes == Currencies \cup {"XXX", "YYY"}
Units == {"kg", "lbs", "g", "tons", "feet", "meters", "each", "pcs", "bogus", "crate"}
Incoterms == DOMAIN INCOTERM_ADDERS \cup {"ZZZ", "QQQ"}
Prices == {Dec(125, -1), Dec(1000, 0), Dec(0, 0), Dec(-725, -2)}
LeadTimes == {NoneV} \cup {IntV(n) : n \in {0, 1, 7, 8, 14, 15, 30, 31, 60, 61, 90, 91, 365}}

Pending == [t |-> "pending"]

(***************************************************************************)
(* State: the engine's rate table, the call made, the arguments with which *)
(* normalize_quotes was entered, what it returned, the caller's quote      *)
(* dicts as they are after the call, the HTTP response, and the amount     *)
(* converted back; and, for callers that share the engine at one time,     *)
(* each caller's call as far as it has got.                                *)
(***************************************************************************)
VARIABLES exchange_rates, request, engine_call, result, caller_quotes, response, back, calls

vars == <<exchange_rates, request, engine_call, result, caller_quotes, response, back, calls>>

Init ==
    /\ exchange_rates = STATIC_EXCHANGE_RATES
    /\ engine_call = Pending
    /\ result = Pending
    /\ caller_quotes = Pending
    /\ response = Pending
    /\ back = Pending
    /\ calls = <<>>
    /\ \/ \E n \in 0..MaxBatch : \E shapes \in [1..n -> Catalogue] : \E target \in Targets :
             request = [op |-> "normalize_quotes", quotes |-> Batch(shapes)] @@ target
       \/ \E shapes \in LongBatches : \E target \in Targets :
             request = [op |-> "normalize_quotes", quotes |-> Batch(shapes)] @@ target
       \/ \E n \in 0..MaxBatch : \E shapes \in [1..n -> ApiCatalogue] :
          \E buyer_quantity \in ApiQuantities : \E user \in BOOLEAN :
             request = [op |-> "post", user |-> user,
                        body |-> NormalizeQuotesRequest(buyer_quantity,
                                     [k \in 1..n |-> QuoteInput(shapes[k], k)])]
       \/ \E from_currency \in Currencies : \E to_currency \in Currencies :
          \E amount \in Amounts :
             request = [op |-> "convert_currency", amount |-> amount,
                        from_currency |-> from_currency, to_currency |-> to_currency]
       \/ \E from_currency \in Codes : \E to_currency \in Codes :
             request = [op |-> "get_rate", from_currency |-> from_currency,
                        to_currency |-> to_currency]
       \/ \E price_per_unit \in Prices : \E from_uom \in Units : \E to_uom \in Units :
             request = [op |-> "convert_uom", price_per_unit |-> price_per_unit,
                        from_uom |-> from_uom, to_uom |-> to_uom]
       \/ \E price \in Prices : \E from_incoterm \in Incoterms :
          \E to_incoterm \in Incoterms :
             request = [op |-> "adjust_incoterm", price |-> price,
                        from_incoterm |-> from_incoterm, to_incoterm |-> to_incoterm]
       \/ \E lead_time_days \in LeadTimes :
             request = [op |-> "score_lead_time", lead_time_days |-> lead_time_days]

\* quote_normalizer.normalize_quotes(...) called on the engine
NormalizeQuotes ==
    /\ request.op = "normalize_quotes"
    /\ result = Pending
    /\ engine_call' = [buyer_currency |-> request.buyer_currency,
                       buyer_uom      |-> request.buyer_uom,
                       buyer_quantity |-> request.buyer_quantity,
                       buyer_incoterm |-> request.buyer_incoterm,
                       quotes         |-> request.quotes]
    /\ result' = normalize_quotes(exchange_rates, request.buyer_currency,
                                  request.buyer_uom, request.buyer_quantity,
                                  request.buyer_incoterm, request.quotes)
    /\ caller_quotes' = quotes_after_call(request.quotes, result')
    /\ UNCHANGED <<exchange_rates, request, response, back, calls>>

\* POST /api/v1/ai/normalize-quotes
ApiNormalizeQuotes ==
    /\ request.op = "post"
    /\ response = Pending
    /\ IF ~request.user
       THEN /\ response' = [status_code |-> 401, detail |-> "Authentication required"]
            /\ UNCHANGED <<engine_call, result, caller_quotes>>
       ELSE LET quotes_dicts == request.body.quotes
                buyer_qty    == IF Truthy(request.body.buyer_quantity)
                                THEN request.body.buyer_quantity ELSE NoneV
            IN  /\ engine_call' = [buyer_currency |-> request.body.buyer_currency,
                                   buyer_uom      |-> request.body.buyer_uom,
                                   buyer_quantity |-> buyer_qty,
                                   buyer_incoterm |-> request.body.buyer_incoterm,
                                   quotes         |-> quotes_dicts]
                /\ result' = normalize_quotes(exchange_rates, request.body.buyer_currency,
                                              request.body.buyer_uom, buyer_qty,
                                              request.body.buyer_incoterm, quotes_dicts)
                /\ caller_quotes' = quotes_after_call(quotes_dicts, result')
                /\ response' = IF "raised" \in DOMAIN result'
                               THEN [status_code |-> 500]
                               ELSE [status_code |-> 200, body |-> result']
    /\ UNCHANGED <<exchange_rates, request, back, calls>>

\* _convert_currency(amount, from_currency, to_currency)
ConvertCurrency ==
    /\ request.op = "convert_currency"
    /\ result = Pending
    /\ result' = Eval[<<"convert_currency", exchange_rates, request.amount, request.from_currency,
                                  request.to_currency>>]
    /\ UNCHANGED <<exchange_rates, request, engine_call, caller_quotes, response, back, calls>>

\* _convert_currency on the amount returned, in the other direction
ConvertBack ==
    /\ request.op = "convert_currency"
    /\ result # Pending
    /\ result.ok
    /\ back = Pending
    /\ back' = Eval[<<"convert_currency", exchange_rates, result.v, request.to_currency,
                                request.from_currency>>]
    /\ UNCHANGED <<exchange_rates, request, engine_call, result, caller_quotes, response, calls>>

\* _get_rate(from_currency, to_currency)
GetRate ==
    /\ request.op = "get_rate"
    /\ result = Pending
    /\ result' = get_rate(exchange_rates, request.from_currency, request.to_currency)
    /\ UNCHANGED <<exchange_rates, request, engine_call, caller_quotes, response, back, calls>>

\* _convert_uom(price_per_unit, from_uom, to_uom)
ConvertUom ==
    /\ request.op = "convert_uom"
    /\ result = Pending
    /\ result' = Ok(convert_uom(request.price_per_unit, request.from_uom, request.to_uom))
    /\ UNCHANGED <<exchange_rates, request, engine_call, caller_quotes, response, back, calls>>

\* _adjust_incoterm(price, from_incoterm, to_incoterm)
AdjustIncoterm ==
    /\ request.op = "adjust_incoterm"
    /\ result = Pending
    /\ result' = Ok(adjust_incoterm(request.price, request.from_incoterm,
                                    request.to_incoterm))
    /\ UNCHANGED <<exchange_rates, request, engine_call, caller_quotes, response, back, calls>>

\* _score_lead_time(lead_time_days)
ScoreLeadTime ==
    /\ request.op = "score_lead_time"
    /\ result = Pending
    /\ result' = Ok(score_lead_time(request.lead_time_days))
    /\ UNCHANGED <<exchange_rates, request, engine_call, caller_quotes, response, back, calls>>

Next ==
    \/ NormalizeQuotes
    \/ ApiNormalizeQuotes
    \/ ConvertCurrency
    \/ ConvertBack
    \/ GetRate
    \/ ConvertUom
    \/ AdjustIncoterm
    \/ ScoreLeadTime

Spec == Init /\ [][Next]_vars

(***************************************************************************)
(* Callers that share the engine at one time.  quote_normalizer is one     *)
(* object (line 310); each call of normalize_quotes has its own locals and *)
(* shares self.exchange_rates, which _get_rate reads.  A call takes a step *)
(* at its entry, at each of the two calls of a pass of the loop that read  *)
(* the table (lines 209 and 238), and at its return; the steps of the      *)
(* callers interleave.                                                     *)
(***************************************************************************)
Callers == {"c1", "c2"}

ConcurrentBatches == {<<"A", "B">>, <<"B", "X">>, <<"P1">>, <<"U1", "B">>}

ConcurrentTargets ==
    {Target("USD", "each", NoneV, StrV("FOB")), Target("eur", "KG", NoneV, NoneV)}

\* A variant of table_after_get_rate with a slip: the rate found is kept in
\* the table.
table_after_get_rate_keeping(rates, from_currency, to_currency) ==
    IF from_currency # to_currency /\ from_currency \in DOMAIN rates
       /\ to_currency \in DOMAIN rates
    THEN [rates EXCEPT ![from_currency] = Eval[<<"get_rate", rates, from_currency,
                                                 to_currency>>].v]
    ELSE rates

\* self.exchange_rates after _get_rate: the method reads the table with get
\* and assigns to nothing
table_after_get_rate(rates, from_currency, to_currency) == rates

\* _normalize_single_quote with the table as it is at each of its two reads:
\* at line 209 (_convert_currency) and at line 238 (_get_rate)
normalize_single_quote_reads(rates_209, rates_238, quote, target_currency, target_uom, target_incoterm, buyer_quantity) ==
    LET first  == normalize_single_quote(rates_209, quote, target_currency, target_uom,
                                         target_incoterm, buyer_quantity)
        second == get_rate(rates_238, Upper(Get(quote, "currency", StrV("USD")).s),
                           target_currency)
    IN  IF ~first.ok THEN first
        ELSE IF ~second.ok THEN second
        ELSE Ok([exchange_rate_used |-> Float(second.v)] @@ first.v)

InitConcurrent ==
    /\ exchange_rates = STATIC_EXCHANGE_RATES
    /\ request = [op |-> "concurrent"]
    /\ engine_call = Pending
    /\ result = Pending
    /\ caller_quotes = Pending
    /\ response = Pending
    /\ back = Pending
    /\ \E shapes \in [Callers -> ConcurrentBatches] :
       \E target \in [Callers -> ConcurrentTargets] :
          calls = [c \in Callers |->
                     [args       |-> [quotes |-> Batch(shapes[c])] @@ target[c],
                      pc         |-> "enter",
                      i          |-> 0,
                      rates_seen |-> Pending,
                      normalized |-> <<>>,
                      warnings   |-> <<>>,
                      result     |-> Pending,
                      overlapped |-> FALSE]]

\* Another caller is inside normalize_quotes
Overlaps(c) == \E d \in Callers \ {c} : calls[d].pc \in {"convert", "record"}

SourceCurrencyOf(quote) == Upper(Get(quote, "currency", StrV("USD")).s)

\* Lines 139-142, and the loop's first quote or none
Enter(c) ==
    /\ calls[c].pc = "enter"
    /\ calls' = [calls EXCEPT ![c].pc = "convert", ![c].i = 1,
                              ![c].overlapped = @ \/ Overlaps(c)]
    /\ UNCHANGED <<exchange_rates, request, engine_call, result, caller_quotes, response, back>>

\* A pass of the loop up to the read of the table at line 209
Convert(c) ==
    /\ calls[c].pc = "convert"
    /\ calls[c].i <= Len(calls[c].args.quotes)
    /\ exchange_rates' = table_after_get_rate(
                             exchange_rates,
                             SourceCurrencyOf(calls[c].args.quotes[calls[c].i]),
                             Upper(calls[c].args.buyer_currency))
    /\ calls' = [calls EXCEPT ![c].pc = "record", ![c].rates_seen = exchange_rates,
                              ![c].overlapped = @ \/ Overlaps(c)]
    /\ UNCHANGED <<request, engine_call, result, caller_quotes, response, back>>

\* The rest of the pass: the read at line 238, the record or the handler
Record(c) ==
    /\ calls[c].pc = "record"
    /\ exchange_rates' = table_after_get_rate(
                             exchange_rates,
                             SourceCurrencyOf(calls[c].args.quotes[calls[c].i]),
                             Upper(calls[c].args.buyer_currency))
    /\ calls' = [calls EXCEPT
                   ![c].pc = "convert",
                   ![c].i = @ + 1,
                   ![c].normalized = @ \o try_except(
                       calls[c].args.quotes[calls[c].i],
                       normalize_single_quote_reads(
                           calls[c].rates_seen, exchange_rates,
                           calls[c].args.quotes[calls[c].i],
                           Upper(calls[c].args.buyer_currency),
                           calls[c].args.buyer_uom,
                           IF Truthy(calls[c].args.buyer_incoterm)
                           THEN Upper(calls[c].args.buyer_incoterm.s) ELSE "FOB",
                           calls[c].args.buyer_quantity)).normalized,
                   ![c].warnings = @ \o try_except(
                       calls[c].args.quotes[calls[c].i],
                       normalize_single_quote_reads(
                           calls[c].rates_seen, exchange_rates,
                           calls[c].args.quotes[calls[c].i],
                           Upper(calls[c].args.buyer_currency),
                           calls[c].args.buyer_uom,
                           IF Truthy(calls[c].args.buyer_incoterm)
                           THEN Upper(calls[c].args.buyer_incoterm.s) ELSE "FOB",
                           calls[c].args.buyer_quantity)).warnings,
                   ![c].overlapped = @ \/ Overlaps(c)]
    /\ UNCHANGED <<request, engine_call, result, caller_quotes, response, back>>

\* Lines 165-192 after the last pass
Return(c) ==
    /\ calls[c].pc = "convert"
    /\ calls[c].i > Len(calls[c].args.quotes)
    /\ calls' = [calls EXCEPT
                   ![c].pc = "done",
                   ![c].result = sort_quotes(
                       Upper(calls[c].args.buyer_currency), calls[c].args.buyer_uom,
                       IF Truthy(calls[c].args.buyer_incoterm)
                       THEN Upper(calls[c].args.buyer_incoterm.s) ELSE "FOB",
                       [normalized |-> calls[c].normalized,
                        warnings   |-> calls[c].warnings]),
                   ![c].overlapped = @ \/ Overlaps(c)]
    /\ UNCHANGED <<exchange_rates, request, engine_call, result, caller_quotes, response, back>>

NextConcurrent == \E c \in Callers : Enter(c) \/ Convert(c) \/ Record(c) \/ Return(c)

SpecConcurrent == InitConcurrent /\ [][NextConcurrent]_vars

(***************************************************************************)
(* Properties of normalize_quotes.  They speak of the call as the engine   *)
(* was entered (engine_call) and of the dict it returned (result).         *)
(***************************************************************************)
Returned == engine_call # Pending /\ result # Pending /\ "raised" \notin DOMAIN result

Quotes == engine_call.quotes

Records == result.normalized_quotes

Ranking == result.ranking

TargetCurrency == Upper(engine_call.buyer_currency)

TargetUom == engine_call.buyer_uom

TargetIncoterm ==
    IF Truthy(engine_call.buyer_incoterm) THEN Upper(engine_call.buyer_incoterm.s) ELSE "FOB"

Succeeded(rec) == rec.normalized_unit_price # NoneV

IsErrorRecord(rec, quote) ==
    /\ "normalization_error" \in DOMAIN rec
    /\ rec = [normalized_unit_price |-> NoneV, normalized_total |-> NoneV,
              normalization_error |-> rec.normalization_error] @@ quote

SupplierOf(quote) ==
    Get(quote, "supplier_name", Get(quote, "supplier_id", StrV("Unknown")))

HasWarning(quote, message) ==
    \E w \in 1..Len(result.warnings) :
        result.warnings[w] = FStr("Could not normalize quote from {}: {}",
                                  <<SupplierOf(quote), message>>)

\* The quote's currency is a code that is not in the rate table and is not
\* the target currency
UnsupportedCurrency(quote) ==
    /\ "currency" \in DOMAIN quote
    /\ quote.currency.t = "str"
    /\ Upper(quote.currency.s) \notin DOMAIN exchange_rates
    /\ Upper(quote.currency.s) # TargetCurrency

\* s without its i-th element
Without(s, i) == [k \in 1..(Len(s) - 1) |-> IF k < i THEN s[k] ELSE s[k + 1]]

\* The price, the total and the flags of a record
Outcome(rec) ==
    [normalized_unit_price |-> rec.normalized_unit_price,
     normalized_total      |-> rec.normalized_total,
     currency_converted    |-> Get(rec, "currency_converted", NoneV),
     uom_converted         |-> Get(rec, "uom_converted", NoneV),
     incoterm_adjusted     |-> Get(rec, "incoterm_adjusted", NoneV)]

\* C1: normalize_quotes returns one record per input quote, in the order of the
\* input: normalized_quotes is as long as the input, and its i-th record
\* carries every field of the i-th quote (the suppliers of a batch differ, so
\* a record is tied to its quote).
C1_OneRecordPerQuote ==
    Returned =>
        /\ Len(Records) = Len(Quotes)
        /\ \A i \in 1..Len(Quotes) : \A k \in DOMAIN Quotes[i] :
              k \in DOMAIN Records[i] /\ Records[i][k] = Quotes[i][k]

\* A batch of two or more was returned in which one quote failed and another
\* did not.
C1_Witness ==
    /\ Returned
    /\ Len(Quotes) >= 2
    /\ \E i \in 1..Len(Records) : ~Succeeded(Records[i])
    /\ \E i \in 1..Len(Records) : Succeeded(Records[i])

\* C2: a quote whose currency code is not in the rate table (and is not the
\* target currency) yields a record of its original fields with a null price,
\* a null total and an error message, which names the currency when the rest
\* of the quote is well formed; the warnings hold "Could not normalize quote
\* from {name}: {message}"; and every other quote gets the price, total and
\* flags it gets in the batch without the failing quote.
C2_UnsupportedCurrencyIsolated ==
    Returned =>
        \A i \in 1..Len(Quotes) :
            UnsupportedCurrency(Quotes[i]) =>
                /\ Len(Records) = Len(Quotes)
                /\ IsErrorRecord(Records[i], Quotes[i])
                /\ HasWarning(Quotes[i], Records[i].normalization_error)
                /\ (/\ DecimalOfStr(Get(Quotes[i], "unit_price", IntV(0))).ok
                    /\ Get(Quotes[i], "unit_of_measure", StrV("")).t = "str"
                    /\ Get(Quotes[i], "incoterm", StrV("")).t = "str")
                   => Records[i].normalization_error =
                          FStr("Unsupported currency: ", <<Upper(Quotes[i].currency.s)>>)
                /\ LET alone == normalize_quotes(exchange_rates, engine_call.buyer_currency,
                                                 engine_call.buyer_uom,
                                                 engine_call.buyer_quantity,
                                                 engine_call.buyer_incoterm,
                                                 Without(Quotes, i)).normalized_quotes
                   IN  \A j \in 1..(Len(Quotes) - 1) :
                           Outcome(alone[j]) = Outcome(Records[IF j < i THEN j ELSE j + 1])

\* A batch was returned with a quote in an unsupported currency next to a
\* quote that was normalized.
C2_Witness ==
    /\ Returned
    /\ \E i \in 1..Len(Quotes) : \E j \in 1..Len(Records) :
          /\ j # i
          /\ UnsupportedCurrency(Quotes[i])
          /\ ~Succeeded(Records[i])
          /\ Succeeded(Records[j])

\* C3: the ranking is sorted ascending by normalized unit price (no entry is
\* priced below an entry before it), its ranks are 1..k in list order, and no
\* entry is priced below the entry of rank 1.
C3_RankingSorted ==
    Returned =>
        /\ \A p \in 1..Len(Ranking) : Ranking[p].rank = IntV(p)
        /\ \A p \in 1..Len(Ranking) : \A q \in 1..Len(Ranking) :
              p < q => ~FloatLt(Ranking[q].normalized_unit_price.d,
                                Ranking[p].normalized_unit_price.d)
        /\ \A p \in 1..Len(Ranking) :
              ~FloatLt(Ranking[p].normalized_unit_price.d,
                       Ranking[1].normalized_unit_price.d)

\* C4: of two normalized quotes with equal normalized unit prices, the one
\* earlier in the input has the smaller rank.
C4_TiesKeepInputOrder ==
    Returned =>
        \A i \in 1..Len(Records) : \A j \in 1..Len(Records) :
            (/\ i < j
             /\ Succeeded(Records[i])
             /\ Succeeded(Records[j])
             /\ Records[i].normalized_unit_price.d # NaN
             /\ Records[j].normalized_unit_price.d # NaN
             /\ DecCmp(Records[i].normalized_unit_price.d,
                       Records[j].normalized_unit_price.d) = 0)
            => Records[i].rank.n < Records[j].rank.n

\* C5: the ranking holds exactly the quotes whose normalized unit price is not
\* null, each once: a record has a rank exactly when its price is not null, the
\* ranks differ, the ranking entry at a record's rank is that record's, the
\* ranking has no other entries, and a failed quote has a record with no rank.
C5_RankingIsTheNormalized ==
    Returned =>
        /\ Len(Records) = Len(Quotes)
        /\ \A i \in 1..Len(Records) :
              /\ "rank" \in DOMAIN Records[i] <=> Succeeded(Records[i])
              /\ "normalization_error" \in DOMAIN Records[i] =>
                    ~Succeeded(Records[i]) /\ "rank" \notin DOMAIN Records[i]
              /\ Succeeded(Records[i]) =>
                    /\ Records[i].rank.t = "int"
                    /\ Records[i].rank.n \in 1..Len(Ranking)
                    /\ Ranking[Records[i].rank.n] =
                          [rank                  |-> Records[i].rank,
                           supplier_id           |-> Get(Records[i], "supplier_id", NoneV),
                           supplier_name         |-> Get(Records[i], "supplier_name", NoneV),
                           normalized_unit_price |-> Records[i].normalized_unit_price]
        /\ \A i \in 1..Len(Records) : \A j \in 1..Len(Records) :
              (i # j /\ Succeeded(Records[i]) /\ Succeeded(Records[j]))
              => Records[i].rank # Records[j].rank
        /\ Len(Ranking) = Cardinality({i \in 1..Len(Records) : Succeeded(Records[i])})

\* A batch was returned in which a failed quote stands before a ranked one.
C5_Witness ==
    /\ Returned
    /\ \E i \in 1..Len(Records) : \E j \in 1..Len(Records) :
          /\ i < j
          /\ "normalization_error" \in DOMAIN Records[i]
          /\ "rank" \in DOMAIN Records[j]
    /\ Len(Ranking) < Len(Records)

\* C6: a quote whose unit price is missing or is not a number yields an error
\* record (null price and total, an error message) and a warning, and has no
\* rank; the batch is still returned with a record for every quote.
C6_MalformedPriceIsAnError ==
    Returned =>
        /\ Len(Records) = Len(Quotes)
        /\ \A i \in 1..Len(Quotes) :
              ("unit_price" \notin DOMAIN Quotes[i]
               \/ Quotes[i].unit_price.t \notin {"num", "int"})
              => /\ IsErrorRecord(Records[i], Quotes[i])
                 /\ HasWarning(Quotes[i], Records[i].normalization_error)
                 /\ "rank" \notin DOMAIN Records[i]

\* The units of a normalized quote: the quote's, or the target's when it
\* names none, and the target's, both in lower case
SourceUom(quote) == Lower(Get(quote, "unit_of_measure", StrV(TargetUom)).s)

Incompatible(from_uom, to_uom) ==
    /\ from_uom # to_uom
    /\ \/ from_uom \notin DOMAIN UNIT_CONVERSIONS
       \/ to_uom \notin DOMAIN UNIT_CONVERSIONS
       \/ UNIT_CONVERSIONS[from_uom].base # UNIT_CONVERSIONS[to_uom].base

\* The price of a normalized quote after the currency step
PriceInTarget(quote) ==
    convert_currency(exchange_rates, DecimalOfStr(Get(quote, "unit_price", IntV(0))).v,
                     Upper(Get(quote, "currency", StrV("USD")).s), TargetCurrency).v

\* The price of a normalized quote after the incoterm step, before rounding
PriceLanded(quote) ==
    adjust_incoterm(convert_uom(PriceInTarget(quote), SourceUom(quote), Lower(TargetUom)),
                    Upper(Get(quote, "incoterm", StrV("FOB")).s), TargetIncoterm)

\* C7: when the source and target units differ and either is not in the unit
\* table or their base dimensions differ, the price after the UoM step is the
\* price after the currency step and the record's uom_converted is false.
C7_IncompatibleUnitsPassThrough ==
    Returned =>
        \A i \in 1..Len(Records) :
            (Succeeded(Records[i]) /\ Incompatible(SourceUom(Quotes[i]), Lower(TargetUom)))
            => /\ convert_uom(PriceInTarget(Quotes[i]), SourceUom(Quotes[i]), Lower(TargetUom))
                    = PriceInTarget(Quotes[i])
               /\ Records[i].uom_converted = BoolV(FALSE)

\* The quantity the total is to be taken over: the target quantity when it is
\* not null, else the quote's offered quantity when it has one, else 1
QuantityToUse(quote) ==
    IF engine_call.buyer_quantity # NoneV THEN engine_call.buyer_quantity
    ELSE IF "quantity_offered" \in DOMAIN quote /\ quote.quantity_offered # NoneV
         THEN quote.quantity_offered
    ELSE IntV(1)

\* C8: the total of a quote is taken over the target quantity when it is
\* provided and not null, else over the quote's offered quantity when it has
\* one, else over 1: whenever the quote offered at that quantity normalizes,
\* the quote's record is normalized and carries that total.
C8_EffectiveQuantity ==
    Returned =>
        \A i \in 1..Len(Quotes) :
            LET expected == normalize_single_quote(
                                exchange_rates,
                                [quantity_offered |-> QuantityToUse(Quotes[i])] @@ Quotes[i],
                                TargetCurrency, TargetUom, TargetIncoterm, NoneV)
            IN  expected.ok => Records[i].normalized_total = expected.v.normalized_total

\* The total of a price over the effective quantity of a quote, rounded half
\* up to 2 decimals, as the float recorded
TotalOf(price, quote) ==
    Float(DecQuantize(DecMul(price, effective_quantity(engine_call.buyer_quantity, quote).v),
                      -2, TRUE).v)

\* C9, as stated: normalized_total is the reported normalized unit price (4
\* decimals) times the effective quantity, rounded half up to 2 decimals.
C9_TotalFromReportedPrice ==
    Returned =>
        \A i \in 1..Len(Records) :
            Succeeded(Records[i])
            => Records[i].normalized_total
                   = TotalOf(Records[i].normalized_unit_price.d, Quotes[i])

\* C9, amended: normalized_total is the landed unit price before its rounding
\* times the effective quantity, rounded half up to 2 decimals; the reported
\* normalized unit price is the same landed price rounded half up to 4
\* decimals.
C9_TotalFromLandedPrice ==
    Returned =>
        \A i \in 1..Len(Records) :
            Succeeded(Records[i])
            => /\ Records[i].normalized_total = TotalOf(PriceLanded(Quotes[i]), Quotes[i])
               /\ Records[i].normalized_unit_price
                      = Float(DecQuantize(PriceLanded(Quotes[i]), -4, TRUE).v)

\* A normalized quote whose total is not the total of its reported price: the
\* rounding of the price to 4 decimals shows in the total.
C9_Witness ==
    /\ Returned
    /\ \E i \in 1..Len(Records) :
          /\ Succeeded(Records[i])
          /\ Records[i].normalized_unit_price.d # NaN
          /\ Records[i].normalized_total
                 # TotalOf(Records[i].normalized_unit_price.d, Quotes[i])

\* C10: converting an amount from a supported currency to another and the
\* result back reproduces the amount with relative error at most 1e-4.
C10_RoundTrip ==
    (request.op = "convert_currency" /\ back # Pending /\ back.ok) =>
        LET diff == DecSub(back.v, request.amount)
        IN  DecCmp([diff EXCEPT !.neg = FALSE],
                   DecMul([request.amount EXCEPT !.neg = FALSE], Dec(1, -4))) <= 0

\* The quote's terms as _normalize_single_quote reads them
SourceCurrency(quote) == Upper(Get(quote, "currency", StrV("USD")).s)

SourceIncoterm(quote) == Upper(Get(quote, "incoterm", StrV("FOB")).s)

\* The quote's currency, unit and incoterm are the target's after case folding
SameTerms(quote) ==
    /\ SourceCurrency(quote) = TargetCurrency
    /\ SourceUom(quote) = Lower(TargetUom)
    /\ SourceIncoterm(quote) = TargetIncoterm

\* C11: a normalized quote whose currency, unit of measure and incoterm are the
\* target's after case folding has as normalized unit price its original unit
\* price rounded to 4 decimals, currency_converted, uom_converted and
\* incoterm_adjusted all false, and exchange rate 1.0.
C11_SameTermsKeepPrice ==
    Returned =>
        \A i \in 1..Len(Records) :
            (Succeeded(Records[i]) /\ SameTerms(Quotes[i]))
            => /\ Records[i].normalized_unit_price
                     = Float(DecQuantize(DecimalOfStr(Get(Quotes[i], "unit_price", IntV(0))).v,
                                         -4, TRUE).v)
               /\ Records[i].currency_converted = BoolV(FALSE)
               /\ Records[i].uom_converted = BoolV(FALSE)
               /\ Records[i].incoterm_adjusted = BoolV(FALSE)
               /\ Records[i].exchange_rate_used = NumV(Dec(10, -1))

\* A quote in the target's terms was normalized where the target's currency
\* and unit are written in another case than the engine compares them in.
C11_Witness ==
    /\ Returned
    /\ engine_call.buyer_currency # TargetCurrency
    /\ TargetUom # Lower(TargetUom)
    /\ \E i \in 1..Len(Records) :
          /\ Succeeded(Records[i])
          /\ SameTerms(Quotes[i])
          /\ "currency" \in DOMAIN Quotes[i]
          /\ Records[i].normalized_unit_price.d # NaN

DecAbs(d) == [d EXCEPT !.neg = FALSE]

\* r is usd_to / usd_from kept to 6 fractional digits: it has 6 fractional
\* digits and lies within half a unit of the 6th digit of the quotient
IsRateOf(r, usd_from, usd_to) ==
    /\ r.e = -6
    /\ DecCmp(DecMul(Dec(2, 0), DecAbs(DecSub(DecMul(r, usd_from), usd_to))),
              DecMul(usd_from, Dec(1, -6))) <= 0

\* C12: the rate from A to B is 1.0 when A = B; otherwise it is
\* usdValue(B) / usdValue(A) of the rate table kept to 6 fractional digits, and
\* the lookup fails with an unsupported-currency error when A differs from B
\* and either code is not in the table; a converted amount is amount * rate.
C12_RateThroughUsd ==
    /\ (request.op = "get_rate" /\ result # Pending) =>
          LET A == request.from_currency
              B == request.to_currency
          IN  IF A = B THEN result = Ok(Dec(10, -1))
              ELSE IF A \notin DOMAIN exchange_rates
                   THEN result = Raise("Unsupported currency: ", A)
              ELSE IF B \notin DOMAIN exchange_rates
                   THEN result = Raise("Unsupported currency: ", B)
              ELSE result.ok /\ IsRateOf(result.v, exchange_rates[A], exchange_rates[B])
    /\ (request.op = "convert_currency" /\ result # Pending) =>
          LET rate == get_rate(exchange_rates, request.from_currency, request.to_currency)
          IN  /\ rate.ok
              /\ result.ok
              /\ DecCmp(result.v, DecMul(request.amount, rate.v)) = 0
              /\ request.from_currency # request.to_currency
                    => result.v = DecMul(request.amount, rate.v)

\* A rate between two different currencies of the table that is not exact at
\* 6 digits was returned.
C12_Witness ==
    /\ request.op = "get_rate"
    /\ result # Pending
    /\ result.ok
    /\ request.from_currency # request.to_currency
    /\ DecCmp(DecMul(result.v, exchange_rates[request.from_currency]),
              exchange_rates[request.to_currency]) # 0

\* Both units are in the unit table and have the same base dimension
Convertible(from_uom, to_uom) ==
    /\ from_uom \in DOMAIN UNIT_CONVERSIONS
    /\ to_uom \in DOMAIN UNIT_CONVERSIONS
    /\ UNIT_CONVERSIONS[from_uom].base = UNIT_CONVERSIONS[to_uom].base

Adder(incoterm) ==
    IF incoterm \in DOMAIN INCOTERM_ADDERS THEN INCOTERM_ADDERS[incoterm] ELSE Dec(5, -2)

\* C14: the incoterm adjustment returns the price when the two codes match and
\* otherwise price / (1 + adder(from)) * (1 + adder(to)), a code missing from
\* the table counting as 0.05; it never fails: a quote with an incoterm that
\* is not in the table is normalized whenever it is with the incoterm FOB.
C14_IncotermAdjustment ==
    /\ (request.op = "adjust_incoterm" /\ result # Pending) =>
          /\ result.ok
          /\ IF request.from_incoterm = request.to_incoterm
             THEN result.v = request.price
             ELSE result.v = DecMul(DecDiv(request.price,
                                           DecAdd(Dec(10, -1), Adder(request.from_incoterm))),
                                    DecAdd(Dec(10, -1), Adder(request.to_incoterm)))
    /\ Returned =>
          \A i \in 1..Len(Quotes) :
              (/\ "incoterm" \in DOMAIN Quotes[i]
               /\ Quotes[i].incoterm.t = "str"
               /\ Upper(Quotes[i].incoterm.s) \notin DOMAIN INCOTERM_ADDERS
               /\ normalize_single_quote(exchange_rates,
                                         [incoterm |-> StrV("FOB")] @@ Quotes[i],
                                         TargetCurrency, TargetUom, TargetIncoterm,
                                         engine_call.buyer_quantity).ok)
              => /\ Succeeded(Records[i])
                 /\ "normalization_error" \notin DOMAIN Records[i]

\* A price was adjusted from a code that is not in the table to one that is.
C14_Witness ==
    /\ request.op = "adjust_incoterm"
    /\ result # Pending
    /\ request.from_incoterm \notin DOMAIN INCOTERM_ADDERS
    /\ request.to_incoterm \in DOMAIN INCOTERM_ADDERS
    /\ request.to_incoterm # "FOB"
    /\ DecCmp(result.v, request.price) # 0

\* The quote has an MOQ, the target has a quantity and the MOQ is the greater
MoqExceeds(quote) ==
    /\ "moq" \in DOMAIN quote
    /\ quote.moq # NoneV
    /\ engine_call.buyer_quantity # NoneV
    /\ DecCmp(DecimalOfStr(quote.moq).v, engine_call.buyer_quantity.d) > 0

\* C15: the moq_warning of a normalized quote's record is non-null exactly when
\* the quote has an MOQ, the target has a quantity and the MOQ is greater than
\* the target quantity, and it then mentions the MOQ and the target quantity;
\* in every other case it is null.
C15_MoqWarning ==
    Returned =>
        \A i \in 1..Len(Records) :
            Succeeded(Records[i]) =>
                IF MoqExceeds(Quotes[i])
                THEN /\ Records[i].moq_warning # NoneV
                     /\ Records[i].moq_warning.t = "fstr"
                     /\ \E a \in 1..Len(Records[i].moq_warning.args) :
                           Records[i].moq_warning.args[a] = Quotes[i].moq
                     /\ \E a \in 1..Len(Records[i].moq_warning.args) :
                           Records[i].moq_warning.args[a] = engine_call.buyer_quantity
                ELSE Records[i].moq_warning = NoneV

\* The score the claim gives to a number of days
ScoreOfDays(days) ==
    IF days <= 7 THEN 100
    ELSE IF days \in 8..14 THEN 85
    ELSE IF days \in 15..30 THEN 70
    ELSE IF days \in 31..60 THEN 50
    ELSE IF days \in 61..90 THEN 30
    ELSE 10

\* C16: the lead-time score is null exactly when lead_time_days is absent;
\* otherwise it is 100 for days <= 7, 85 for 8..14, 70 for 15..30, 50 for
\* 31..60, 30 for 61..90 and 10 beyond 90, and no larger number of days scores
\* higher; a normalized quote's record carries the score of the quote's days.
C16_LeadTimeScore ==
    /\ (request.op = "score_lead_time" /\ result # Pending) =>
          /\ result.ok
          /\ result.v = NoneV <=> request.lead_time_days = NoneV
          /\ request.lead_time_days # NoneV =>
                /\ result.v = IntV(ScoreOfDays(request.lead_time_days.n))
                /\ \A later \in LeadTimes \ {NoneV} :
                      later.n >= request.lead_time_days.n
                      => score_lead_time(later).n <= result.v.n
    /\ Returned =>
          \A i \in 1..Len(Records) :
              Succeeded(Records[i]) =>
                  IF "lead_time_days" \in DOMAIN Quotes[i] /\ Quotes[i].lead_time_days # NoneV
                  THEN Records[i].lead_time_score
                           = IntV(ScoreOfDays(Quotes[i].lead_time_days.n))
                  ELSE Records[i].lead_time_score = NoneV

\* A number of days at the upper end of a step was scored.
C16_Witness ==
    /\ request.op = "score_lead_time"
    /\ result # Pending
    /\ request.lead_time_days \in {IntV(7), IntV(14), IntV(30), IntV(60), IntV(90)}
    /\ result.v # NoneV

\* C17: normalize_quotes never fails as a whole: whatever the quotes, a call
\* with a target currency and unit returns a result of base terms,
\* normalized_quotes (a record per quote), ranking and warnings instead of
\* raising.
C17_NeverFailsAsAWhole ==
    engine_call # Pending =>
        /\ result # Pending
        /\ "raised" \notin DOMAIN result
        /\ DOMAIN result = {"base_currency", "base_uom", "base_incoterm",
                            "normalized_quotes", "ranking", "warnings"}
        /\ result.base_currency = StrV(TargetCurrency)
        /\ result.base_uom = StrV(TargetUom)
        /\ result.base_incoterm = StrV(TargetIncoterm)
        /\ Len(result.normalized_quotes) = Len(Quotes)

\* A call returned although every one of its two or more quotes failed, one
\* of them for another reason than its currency.
C17_Witness ==
    /\ Returned
    /\ Len(Quotes) >= 2
    /\ \A i \in 1..Len(Records) : "normalization_error" \in DOMAIN Records[i]
    /\ \E i \in 1..Len(Records) :
          Records[i].normalization_error.text # "Unsupported currency: "
    /\ Len(result.warnings) = Len(Quotes)

\* C18: normalize_quotes leaves the caller's quote dicts as they were: after
\* the call each has exactly the keys and values it was passed with, and the
\* rank is on the records only.
C18_QuotesUnchanged ==
    Returned =>
        /\ caller_quotes = Quotes
        /\ \A i \in 1..Len(Quotes) :
              /\ DOMAIN caller_quotes[i] = DOMAIN Quotes[i]
              /\ Succeeded(Records[i]) =>
                    "rank" \in DOMAIN Records[i] /\ "rank" \notin DOMAIN caller_quotes[i]

\* A call returned that ranked two or more of its quotes.
C18_Witness ==
    /\ Returned
    /\ caller_quotes = Quotes
    /\ Len(Ranking) >= 2
    /\ \E i \in 1..Len(Records) : Records[i] # Quotes[i] /\ "rank" \in DOMAIN Records[i]

SavingsText == "Potential savings: {}% between lowest and highest quote."

IsSavingsMessage(w) == w.t = "fstr" /\ w.text = SavingsText

\* pct is (worst - best) / worst * 100 to one decimal place, for worst > 0
IsSavingsPct(pct, best, worst) ==
    IF best = NaN THEN pct = NaN
    ELSE /\ pct # NaN
         /\ pct.e = -1
         /\ DecCmp(DecAbs(DecSub(DecMul(pct, worst),
                                 DecMul(DecSub(worst, best), Dec(100, 0)))),
                   DecMul(worst, Dec(50000001, -9))) <= 0

\* C20: when the ranking has 2 or more entries and the price of its last entry
\* (worst) is greater than 0, the first of the warnings is the savings message
\* with the percentage (worst - best) / worst * 100 to one decimal place, best
\* being the price of the first entry, and no other warning is one; otherwise
\* there is no savings message.
C20_SavingsMessage ==
    Returned =>
        IF Len(Ranking) >= 2
           /\ FloatLt(Dec(0, 0), Ranking[Len(Ranking)].normalized_unit_price.d)
        THEN /\ Len(result.warnings) >= 1
             /\ IsSavingsMessage(result.warnings[1])
             /\ Len(result.warnings[1].args) = 1
             /\ IsSavingsPct(result.warnings[1].args[1].d,
                             Ranking[1].normalized_unit_price.d,
                             Ranking[Len(Ranking)].normalized_unit_price.d)
             /\ \A w \in 2..Len(result.warnings) : ~IsSavingsMessage(result.warnings[w])
        ELSE \A w \in 1..Len(result.warnings) : ~IsSavingsMessage(result.warnings[w])

\* A savings message of more than 0% stands before the warning of a quote
\* that failed.
C20_Witness ==
    /\ Returned
    /\ Len(result.warnings) >= 2
    /\ IsSavingsMessage(result.warnings[1])
    /\ result.warnings[1].args[1].d # NaN
    /\ ~DecIsZero(result.warnings[1].args[1].d)

\* C19: normalize_quotes writes neither the rate table nor other shared state,
\* so under any interleaving of the callers' steps each call returns what it
\* returns when run alone on the engine as constructed.
C19_ConcurrentCallsAgree ==
    request.op = "concurrent" =>
        /\ exchange_rates = STATIC_EXCHANGE_RATES
        /\ \A c \in Callers :
              calls[c].pc = "done" =>
                  calls[c].result = normalize_quotes(STATIC_EXCHANGE_RATES,
                                                     calls[c].args.buyer_currency,
                                                     calls[c].args.buyer_uom,
                                                     calls[c].args.buyer_quantity,
                                                     calls[c].args.buyer_incoterm,
                                                     calls[c].args.quotes)

\* Two calls that converted currencies have both returned, each having taken
\* steps while the other was inside normalize_quotes.
C19_Witness ==
    /\ request.op = "concurrent"
    /\ \A c \in Callers :
          /\ calls[c].pc = "done"
          /\ calls[c].overlapped
          /\ \E i \in 1..Len(calls[c].result.normalized_quotes) :
                Get(calls[c].result.normalized_quotes[i], "currency_converted", NoneV)
                    = BoolV(TRUE)

\* C21: normalize_quotes on an empty sequence of quotes returns, without
\* raising, a dict with empty normalized_quotes, an empty ranking and empty
\* warnings.
C21_EmptyBatch ==
    (engine_call # Pending /\ Len(Quotes) = 0) =>
        /\ result # Pending
        /\ "raised" \notin DOMAIN result
        /\ result.normalized_quotes = <<>>
        /\ result.ranking = <<>>
        /\ result.warnings = <<>>

\* A call with no quotes and a target in other terms than the defaults
\* returned.
C21_Witness ==
    /\ Returned
    /\ Len(Quotes) = 0
    /\ engine_call.buyer_incoterm = NoneV
    /\ result.base_incoterm = StrV("FOB")

\* The quote {unit_price 10.00, currency EUR, unit kg, incoterm FOB} under the
\* target {currency USD, unit lbs, incoterm FOB} with the built-in tables
IsEurosPerKg(quote) ==
    /\ Get(quote, "unit_price", NoneV) = NumV(Dec(100, -1))
    /\ Get(quote, "currency", NoneV) = StrV("EUR")
    /\ Get(quote, "unit_of_measure", NoneV) = StrV("kg")
    /\ Get(quote, "incoterm", NoneV) = StrV("FOB")
    /\ engine_call.buyer_currency = "USD"
    /\ engine_call.buyer_uom = "lbs"
    /\ engine_call.buyer_incoterm = StrV("FOB")
    /\ exchange_rates = STATIC_EXCHANGE_RATES

\* C22, as stated: the record of that quote has currency_converted true,
\* uom_converted true and normalized_unit_price 4.9304.
C22_EurosPerKgAsStated ==
    Returned =>
        \A i \in 1..Len(Records) :
            IsEurosPerKg(Quotes[i])
            => /\ Succeeded(Records[i])
               /\ Records[i].currency_converted = BoolV(TRUE)
               /\ Records[i].uom_converted = BoolV(TRUE)
               /\ Records[i].normalized_unit_price.d # NaN
               /\ DecCmp(Records[i].normalized_unit_price.d, Dec(49304, -4)) = 0

\* C22, amended: the record of that quote has currency_converted true,
\* uom_converted true and normalized_unit_price 4.9303, which is
\* 10.00 * 1.086957 * 0.453592 = 4.93034999... rounded half up to 4 decimals.
C22_EurosPerKg ==
    Returned =>
        \A i \in 1..Len(Records) :
            IsEurosPerKg(Quotes[i])
            => /\ Succeeded(Records[i])
               /\ Records[i].currency_converted = BoolV(TRUE)
               /\ Records[i].uom_converted = BoolV(TRUE)
               /\ Records[i].normalized_unit_price.d # NaN
               /\ DecCmp(Records[i].normalized_unit_price.d, Dec(49303, -4)) = 0

\* The quote in euros per kg was normalized to dollars per lbs.
C22_Witness ==
    /\ Returned
    /\ \E i \in 1..Len(Records) :
          /\ IsEurosPerKg(Quotes[i])
          /\ Succeeded(Records[i])
          /\ Records[i].exchange_rate_used = NumV(Dec(1086957, -6))

\* The quote with "FOB" for an incoterm that is absent or None and the target
\* unit for a unit of measure that is absent or None
WithDefaults(quote) ==
    (IF Get(quote, "incoterm", NoneV) = NoneV THEN [incoterm |-> StrV("FOB")] ELSE <<>>)
    @@ (IF Get(quote, "unit_of_measure", NoneV) = NoneV
        THEN [unit_of_measure |-> StrV(TargetUom)] ELSE <<>>)
    @@ quote

\* C23: a quote whose incoterm is absent or None is normalized as with the
\* incoterm "FOB", and a quote whose unit of measure is absent or None as with
\* the target unit: whenever the quote with these values normalizes, the
\* quote's record is no error record and has the same price, total and flags.
C23_AbsentOrNullDefaults ==
    Returned =>
        \A i \in 1..Len(Quotes) :
            LET expected == normalize_single_quote(exchange_rates, WithDefaults(Quotes[i]),
                                                   TargetCurrency, TargetUom, TargetIncoterm,
                                                   engine_call.buyer_quantity)
            IN  (WithDefaults(Quotes[i]) # Quotes[i] /\ expected.ok)
                => /\ Succeeded(Records[i])
                   /\ "normalization_error" \notin DOMAIN Records[i]
                   /\ Outcome(Records[i]) = Outcome(expected.v)

\* The quote's unit price as a Decimal
OriginalPrice(quote) == DecimalOfStr(Get(quote, "unit_price", IntV(0))).v

\* The price of a normalized quote after the unit step
PriceInTargetUom(quote) ==
    convert_uom(PriceInTarget(quote), SourceUom(quote), Lower(TargetUom))

\* C24: in the record of a normalized quote currency_converted is true exactly
\* when the source currency differs from the target currency and
\* incoterm_adjusted exactly when the effective source incoterm differs from
\* the target incoterm; a step whose flag is false left the price as it was;
\* and exchange_rate_used is the rate of the currency step: the price after
\* that step is the unit price times it, and it is 1.0 when the currencies
\* are the same.  (The claim lists these flags; uom_converted is the subject
\* of C7 and C13.)
C24_FlagsTellConversions ==
    Returned =>
        \A i \in 1..Len(Records) :
            Succeeded(Records[i]) =>
                /\ Records[i].currency_converted
                       = BoolV(SourceCurrency(Quotes[i]) # TargetCurrency)
                /\ Records[i].incoterm_adjusted
                       = BoolV(SourceIncoterm(Quotes[i]) # TargetIncoterm)
                /\ Records[i].currency_converted = BoolV(FALSE)
                      => /\ PriceInTarget(Quotes[i]) = OriginalPrice(Quotes[i])
                         /\ Records[i].exchange_rate_used = NumV(Dec(10, -1))
                /\ Records[i].incoterm_adjusted = BoolV(FALSE)
                      => PriceLanded(Quotes[i]) = PriceInTargetUom(Quotes[i])
                /\ Records[i].exchange_rate_used.d # NaN
                /\ OriginalPrice(Quotes[i]) # NaN
                      => DecCmp(PriceInTarget(Quotes[i]),
                                DecMul(OriginalPrice(Quotes[i]),
                                       Records[i].exchange_rate_used.d)) = 0

\* A quote was normalized from another currency and another incoterm than the
\* target's, at a rate other than 1.
C24_Witness ==
    /\ Returned
    /\ \E i \in 1..Len(Records) :
          /\ Succeeded(Records[i])
          /\ Records[i].currency_converted = BoolV(TRUE)
          /\ Records[i].incoterm_adjusted = BoolV(TRUE)
          /\ Records[i].exchange_rate_used # NumV(Dec(10, -1))
          /\ DecCmp(PriceInTarget(Quotes[i]), OriginalPrice(Quotes[i])) # 0

\* The quote with its unit of measure written in lower case
LowerUnit(quote) ==
    IF "unit_of_measure" \in DOMAIN quote /\ quote.unit_of_measure.t = "str"
    THEN [unit_of_measure |-> StrV(Lower(quote.unit_of_measure.s))] @@ quote
    ELSE quote

\* C25: units of measure are case-insensitive: every quote gets the price, the
\* total and the uom_converted flag that the quote with its unit in lower case
\* gets under the target unit in lower case, and fails exactly when that one
\* fails.
C25_UnitsCaseInsensitive ==
    Returned =>
        \A i \in 1..Len(Quotes) :
            LET lower == normalize_single_quote(exchange_rates, LowerUnit(Quotes[i]),
                                                TargetCurrency, Lower(TargetUom),
                                                TargetIncoterm, engine_call.buyer_quantity)
            IN  IF lower.ok
                THEN /\ Succeeded(Records[i])
                     /\ Records[i].normalized_unit_price = lower.v.normalized_unit_price
                     /\ Records[i].normalized_total = lower.v.normalized_total
                     /\ Records[i].uom_converted = lower.v.uom_converted
                ELSE ~Succeeded(Records[i])

\* A quote per "Lbs" was normalized to a target per "KG" and its price changed;
\* another, in the same call, names the target's unit in another case.
C25_Witness ==
    /\ Returned
    /\ TargetUom # Lower(TargetUom)
    /\ \E i \in 1..Len(Records) :
          /\ Succeeded(Records[i])
          /\ LowerUnit(Quotes[i]) # Quotes[i]
          /\ Records[i].uom_converted = BoolV(TRUE)
          /\ Records[i].normalized_unit_price.d # NaN
          /\ DecCmp(Records[i].normalized_unit_price.d, OriginalPrice(Quotes[i])) # 0
    /\ \E j \in 1..Len(Records) :
          /\ Succeeded(Records[j])
          /\ Records[j].uom_converted = BoolV(FALSE)

\* A record of a quote that was normalized: a price, a total, no error
IsSuccessShape(rec) ==
    /\ Get(rec, "normalized_unit_price", NoneV) # NoneV
    /\ Get(rec, "normalized_total", NoneV) # NoneV
    /\ "normalization_error" \notin DOMAIN rec

\* A record of a quote that failed: no price, no total, an error message
IsErrorShape(rec) ==
    /\ "normalized_unit_price" \in DOMAIN rec
    /\ "normalized_total" \in DOMAIN rec
    /\ rec.normalized_unit_price = NoneV
    /\ rec.normalized_total = NoneV
    /\ "normalization_error" \in DOMAIN rec
    /\ rec.normalization_error # NoneV
    /\ rec.normalization_error.t = "fstr"

\* C26: every record of normalized_quotes has exactly one of two shapes: a
\* price and a total that are not null and no normalization_error, or a null
\* price, a null total and a normalization_error message.
C26_TwoShapes ==
    Returned =>
        \A i \in 1..Len(Records) :
            /\ IsSuccessShape(Records[i]) \/ IsErrorShape(Records[i])
            /\ ~(IsSuccessShape(Records[i]) /\ IsErrorShape(Records[i]))
            /\ Records[i].normalized_unit_price # NoneV
                  => "normalization_error" \notin DOMAIN Records[i]
            /\ Records[i].normalized_unit_price = NoneV
                  => "normalization_error" \in DOMAIN Records[i]

\* A call returned records of both shapes, the price of one of them a nan.
C26_Witness ==
    /\ Returned
    /\ \E i \in 1..Len(Records) : IsErrorShape(Records[i])
    /\ \E i \in 1..Len(Records) :
          IsSuccessShape(Records[i]) /\ Records[i].normalized_unit_price.d = NaN

\* The records of normalized_quotes whose rank is p
RankedAt(p) ==
    {i \in 1..Len(Records) : "rank" \in DOMAIN Records[i] /\ Records[i].rank = IntV(p)}

\* C27: the p-th entry of the ranking has rank p; exactly one record of
\* normalized_quotes has the rank p, it is the record of a normalized quote,
\* and the entry carries its supplier_id, supplier_name and
\* normalized_unit_price; the records of failed quotes have no rank.
C27_RankingAgreesWithRanks ==
    Returned =>
        /\ \A p \in 1..Len(Ranking) :
              /\ Ranking[p].rank = IntV(p)
              /\ Cardinality(RankedAt(p)) = 1
              /\ \A i \in RankedAt(p) :
                    /\ IsSuccessShape(Records[i])
                    /\ Ranking[p].supplier_id = Get(Records[i], "supplier_id", NoneV)
                    /\ Ranking[p].supplier_name = Get(Records[i], "supplier_name", NoneV)
                    /\ Ranking[p].normalized_unit_price = Records[i].normalized_unit_price
        /\ \A i \in 1..Len(Records) :
              IsErrorShape(Records[i]) => "rank" \notin DOMAIN Records[i]

\* The sort exchanged two quotes that stand on either side of a failed one.
C27_Witness ==
    /\ Returned
    /\ Len(Ranking) >= 2
    /\ \E i \in 1..Len(Records) : \E j \in 1..Len(Records) : \E k \in 1..Len(Records) :
          /\ i < k /\ k < j
          /\ IsErrorShape(Records[k])
          /\ IsSuccessShape(Records[i])
          /\ IsSuccessShape(Records[j])
          /\ Records[j].rank.n < Records[i].rank.n

\* The records of failed quotes, by their place in normalized_quotes
ErrorIndices == {i \in 1..Len(Records) : IsErrorShape(Records[i])}

\* The n-th of them in input order
NthError(n) ==
    CHOOSE i \in ErrorIndices : Cardinality({j \in ErrorIndices : j < i}) = n - 1

\* The number of warnings before the per-quote entries
SavingsOffset ==
    IF Len(result.warnings) >= 1 /\ IsSavingsMessage(result.warnings[1]) THEN 1 ELSE 0

\* C28: after the savings message, if there is one at index 0, the warnings are
\* the "Could not normalize quote from {name}: {message}" entries of the
\* failed quotes, one for each, in input order, and nothing else; so there is
\* at most one savings message and none behind a per-quote entry.
C28_WarningsInOrder ==
    Returned =>
        /\ Len(result.warnings) = SavingsOffset + Cardinality(ErrorIndices)
        /\ \A n \in 1..Cardinality(ErrorIndices) :
              result.warnings[SavingsOffset + n]
                  = FStr("Could not normalize quote from {}: {}",
                         <<SupplierOf(Quotes[NthError(n)]),
                           Records[NthError(n)].normalization_error>>)

\* A savings message stands before the warnings of two quotes that failed for
\* different reasons.
C28_Witness ==
    /\ Returned
    /\ SavingsOffset = 1
    /\ Cardinality(ErrorIndices) >= 2
    /\ Records[NthError(1)].normalization_error # Records[NthError(2)].normalization_error
    /\ result.warnings[2] # result.warnings[3]

\* The quote's currency is a code, the target's, that is not in the rate table
OwnCurrencyOffTable(quote) ==
    /\ Get(quote, "currency", StrV("USD")).t = "str"
    /\ SourceCurrency(quote) = TargetCurrency
    /\ SourceCurrency(quote) \notin DOMAIN exchange_rates

\* C29: the rate table is consulted only for two different codes: a quote
\* whose currency is the target's and is not in the rate table is normalized
\* whenever it is under a table that has the code, to the same price and
\* total, with exchange_rate_used 1.0 and currency_converted false; and
\* _get_rate gives 1.0 for two equal codes that are not in the table.
C29_SameCodeNeedsNoRate ==
    /\ Returned =>
          \A i \in 1..Len(Quotes) :
              LET listed == normalize_single_quote(
                                [c \in {TargetCurrency} |-> Dec(15, -1)] @@ exchange_rates,
                                Quotes[i], TargetCurrency, TargetUom, TargetIncoterm,
                                engine_call.buyer_quantity)
              IN  (OwnCurrencyOffTable(Quotes[i]) /\ listed.ok)
                  => /\ IsSuccessShape(Records[i])
                     /\ Records[i].exchange_rate_used = NumV(Dec(10, -1))
                     /\ Records[i].currency_converted = BoolV(FALSE)
                     /\ Records[i].normalized_unit_price = listed.v.normalized_unit_price
                     /\ Records[i].normalized_total = listed.v.normalized_total
    /\ (request.op = "get_rate" /\ result # Pending
        /\ request.from_currency = request.to_currency
        /\ request.from_currency \notin DOMAIN exchange_rates)
       => result = Ok(Dec(10, -1))

\* A quote in the target's currency, which is not in the rate table, was
\* normalized next to a quote in a currency of the table, which failed.
C29_Witness ==
    /\ Returned
    /\ TargetCurrency \notin DOMAIN exchange_rates
    /\ \E i \in 1..Len(Records) :
          OwnCurrencyOffTable(Quotes[i]) /\ IsSuccessShape(Records[i])
    /\ \E j \in 1..Len(Records) :
          /\ IsErrorShape(Records[j])
          /\ Records[j].normalization_error
                 = FStr("Unsupported currency: ", <<TargetCurrency>>)

\* The incoterms from the one that leaves most to the buyer to the one that
\* leaves most to the supplier
IncotermSequence == <<"EXW", "FCA", "FOB", "CFR", "CIF", "DAP", "DDP">>

\* The place of an incoterm in the sequence
PlaceOf(incoterm) == CHOOSE p \in 1..Len(IncotermSequence) : IncotermSequence[p] = incoterm

InSequence(incoterm) == \E p \in 1..Len(IncotermSequence) : IncotermSequence[p] = incoterm

\* The adjusted price does not decrease when the target incoterm moves on in
\* the sequence and does not increase when the source incoterm does
MonotoneAtCall ==
    /\ \A later \in 1..Len(IncotermSequence) :
          later >= PlaceOf(request.to_incoterm)
          => DecCmp(adjust_incoterm(request.price, request.from_incoterm,
                                    IncotermSequence[later]),
                    result.v) >= 0
    /\ \A later \in 1..Len(IncotermSequence) :
          later >= PlaceOf(request.from_incoterm)
          => DecCmp(adjust_incoterm(request.price, IncotermSequence[later],
                                    request.to_incoterm),
                    result.v) <= 0

\* C30, as stated: for any price the unrounded incoterm-adjusted price never
\* decreases as the target incoterm moves through EXW, FCA, FOB, CFR, CIF,
\* DAP, DDP, and never increases as the source incoterm moves through them.
C30_MonotoneInIncoterms ==
    (/\ request.op = "adjust_incoterm"
     /\ result # Pending
     /\ InSequence(request.from_incoterm)
     /\ InSequence(request.to_incoterm))
    => MonotoneAtCall

\* C30, amended: the same for a price that is not negative.
C30_MonotoneForPricesFromZero ==
    (/\ request.op = "adjust_incoterm"
     /\ result # Pending
     /\ InSequence(request.from_incoterm)
     /\ InSequence(request.to_incoterm)
     /\ ~request.price.neg)
    => MonotoneAtCall

\* A price above 0 was adjusted between two incoterms of the sequence and came
\* out higher than for the target one place before and lower than for the
\* source one place before.
C30_Witness ==
    /\ request.op = "adjust_incoterm"
    /\ result # Pending
    /\ InSequence(request.from_incoterm)
    /\ InSequence(request.to_incoterm)
    /\ ~request.price.neg
    /\ PlaceOf(request.to_incoterm) > 1
    /\ PlaceOf(request.from_incoterm) > 1
    /\ DecCmp(result.v,
              adjust_incoterm(request.price, request.from_incoterm,
                              IncotermSequence[PlaceOf(request.to_incoterm) - 1])) > 0
    /\ DecCmp(result.v,
              adjust_incoterm(request.price,
                              IncotermSequence[PlaceOf(request.from_incoterm) - 1],
                              request.to_incoterm)) < 0

====
